---- MODULE Spec2Model ----
(***************************************************************************)
(* A model of proposal-pipeline's OOXML composition engine:               *)
(*   - pptx_merger/merger.py   : the ZIP-level package merger             *)
(*   - pptx_replacer/replacer.py: the content injector                    *)
(* Strings of the program are sequences of character codes (ASCII), so    *)
(* that substring tests, replacement and sorting are computed as Python   *)
(* computes them.                                                         *)
(***************************************************************************)
EXTENDS Integers, Sequences, FiniteSets, TLC

VARIABLES
    base,     \* the accumulating base container (the unpacked td/"base" tree)
    srcs,     \* names of the sources folded in so far, in call order
    phase,    \* "merging" while sources are appended, "done" after _fix_app_xml
    offs,     \* history: per appended source, the base's family maxima before it
    prevIds,  \* history: the master/layout ids in use before the last append
    doc,      \* replace: the slides of the open presentation
    doc0,     \* replace: the presentation as it was opened
    mapping,  \* replace: the variables dict, as its (key, value) items in order
    rphase,   \* replace: "open" before replace() has run, "replaced" after
    tdoc,     \* inject_table: the presentation (one slide, at most one table)
    tdoc0,    \* inject_table: the presentation as it was before the call
    tfit,     \* inject_table: the presentation when font auto-fit started
    recs,     \* inject_table: the TopicRow records handed to the call
    tphase,   \* inject_table: "open" before the call, then its outcome
    sources,  \* merge_and_save: the kinds of the sources, "path" or "memory"
    pc,       \* merge_and_save: the statement the call is at
    idx,      \* merge_and_save: the index of the running loop
    paths,    \* merge_and_save: the list paths (indices of their sources)
    tmps,     \* merge_and_save: the list tmps (indices of their sources)
    fs,       \* merge_and_save: the file system the call works on
    raising,  \* merge_and_save: an exception is on its way out of the try
    created,  \* history: what the call has created in the file system
    img,      \* replace_slide_image: the slide, its relationships, the image parts
    img0,     \* replace_slide_image: the same before the call
    iphase,   \* replace_slide_image: "open" before the call, then its outcome
    config,   \* run: the PipelineConfig (fixed_pages, dynamic_pages)
    ordered_pages, \* run: the list ordered_pages, <<>> before it is assigned
    rpc,      \* run: the statement the run is at
    page_i,   \* run: the index of the page being processed in ordered_pages
    pptx_paths, \* run: the list pptx_paths
    errors,   \* run: the list errors
    status,   \* run: the last GenerationStatus polled for the current page
    polls,    \* run: the get_status calls made for the current page
    work,     \* run: the scratch directory output_dir/_work and its files
    processed, \* history: the pages whose processing was started, in order
    merges,   \* history: the path lists the merger was invoked with
    waited,   \* history: the statuses wait_for_completion returned
    result,   \* run: the PipelineResult returned, <<>> before
    poll_interval, \* wait_for_completion: the argument poll_interval, in ticks
    timeout,  \* wait_for_completion: the argument timeout, in ticks
    clock,    \* wait_for_completion: time.time() - start
    elapsed,  \* wait_for_completion: the local elapsed
    queries,  \* history: the get_status calls made
    wstatus,  \* wait_for_completion: the local status (its status text)
    wpc       \* wait_for_completion: the statement the call is at, or how it ended

mergeVars == <<base, srcs, phase, offs, prevIds>>

replaceVars == <<doc, doc0, mapping, rphase>>

tableVars == <<tdoc, tdoc0, tfit, recs, tphase>>

callVars == <<sources, pc, idx, paths, tmps, fs, raising, created>>

imageVars == <<img, img0, iphase>>

runVars ==
    <<config, ordered_pages, rpc, page_i, pptx_paths, errors, status, polls, work,
      processed, merges, waited, result>>

waitVars == <<poll_interval, timeout, clock, elapsed, queries, wstatus, wpc>>

vars ==
    <<base, srcs, phase, offs, prevIds, doc, doc0, mapping, rphase,
      tdoc, tdoc0, tfit, recs, tphase,
      sources, pc, idx, paths, tmps, fs, raising, created,
      img, img0, iphase,
      config, ordered_pages, rpc, page_i, pptx_paths, errors, status, polls, work,
      processed, merges, waited, result,
      poll_interval, timeout, clock, elapsed, queries, wstatus, wpc>>

-----------------------------------------------------------------------------
(* Bounds of the model *)

\* the longest list of sources handed to one merge
MaxSources == 3

\* the most text pieces a paragraph of a template is put together from
MaxPieces == 3

\* the longest list of records handed to one inject_table
MaxRecords == 2

\* the longest list of sources of a merge_and_save call followed step by step
MaxCallSources == 3

\* the most shapes on the slide handed to replace_slide_image
MaxShapes == 2

\* the most fixed pages, and the most dynamic pages, of a configuration
MaxFixed == 2

MaxDynamic == 1

\* the most get_status calls the generation service answers for one page
\* before the time bound of the wait is reached
MaxPolls == 2

\* the largest poll_interval and the largest timeout of a wait, and the
\* longest a get_status call takes, in ticks
MaxInterval == 3

MaxTimeout == 6

MaxLatency == 2

-----------------------------------------------------------------------------
(* Generic helpers *)

Max(S, default) == IF S = {} THEN default ELSE CHOOSE x \in S : \A y \in S : y <= x

Range(f) == {f[x] : x \in DOMAIN f}

RECURSIVE SortNums(_)
\* sorted(S) for a set of integers
SortNums(S) ==
    IF S = {} THEN <<>>
    ELSE LET m == CHOOSE x \in S : \A y \in S : x <= y
         IN <<m>> \o SortNums(S \ {m})

\* str comparison: lexicographic on character codes
RECURSIVE StrLess(_, _)
StrLess(a, b) ==
    IF b = <<>> THEN FALSE
    ELSE IF a = <<>> THEN TRUE
    ELSE IF a[1] # b[1] THEN a[1] < b[1]
    ELSE StrLess(Tail(a), Tail(b))

RECURSIVE SortStrs(_)
\* sorted(S) for a set of strings
SortStrs(S) ==
    IF S = {} THEN <<>>
    ELSE LET m == CHOOSE x \in S : \A y \in S \ {x} : StrLess(x, y)
         IN <<m>> \o SortStrs(S \ {m})

StartsWithAt(s, i, t) ==
    /\ i + Len(t) - 1 <= Len(s)
    /\ \A k \in 1..Len(t) : s[i + k - 1] = t[k]

\* Python's  t in s  for a non-empty t
Contains(s, t) == \E i \in 1..(Len(s) - Len(t) + 1) : StartsWithAt(s, i, t)

RECURSIVE ReplaceFrom(_, _, _, _)
ReplaceFrom(s, i, old, new) ==
    IF i > Len(s) THEN <<>>
    ELSE IF StartsWithAt(s, i, old)
         THEN new \o ReplaceFrom(s, i + Len(old), old, new)
         ELSE <<s[i]>> \o ReplaceFrom(s, i + 1, old, new)

\* Python's  s.replace(old, new)  for a non-empty old
Replace(s, old, new) == ReplaceFrom(s, 1, old, new)

-----------------------------------------------------------------------------
(* Character codes and the file names used by the sources *)

\* "../media/"
MediaDir == <<46, 46, 47, 109, 101, 100, 105, 97, 47>>
\* "p.png", "mp.png", "p_m1.png"
pPng == <<112, 46, 112, 110, 103>>
mpPng == <<109, 112, 46, 112, 110, 103>>
pm1Png == <<112, 95, 109, 49, 46, 112, 110, 103>>

\* index of the last "." (code 46) of a name, 0 when there is none
LastDot(name) == Max({i \in 1..Len(name) : name[i] = 46}, 0)

\* pathlib's PurePath.suffix and PurePath.stem
PathSuffix(name) ==
    LET i == LastDot(name)
    IN IF 1 < i /\ i < Len(name) THEN SubSeq(name, i, Len(name)) ELSE <<>>

PathStem(name) ==
    LET i == LastDot(name)
    IN IF 1 < i /\ i < Len(name) THEN SubSeq(name, 1, i - 1) ELSE name

-----------------------------------------------------------------------------
(* Containers *)

Families == {"slide", "slideLayout", "slideMaster", "theme"}

\* a relationship target: a numbered part, a media file (by its path text), or
\* a part of another kind (chart, notesSlide, ...)
PartT(fam, n) == [k |-> fam, n |-> n, s |-> <<>>]
MediaT(name) == [k |-> "media", n |-> 0, s |-> MediaDir \o name]
Rel(id, type, target) == [Id |-> id, Type |-> type, Target |-> target]

\* _nums: the numeric suffixes of a family's part files
_nums(c, fam) == {key[2] : key \in {x \in DOMAIN c.parts : x[1] = fam}}

\* the parts of other kinds a slide can be related to; _append copies none of them
OtherT(kind, n) == [k |-> kind, n |-> n, s |-> <<>>]

\* ids of a relationship file: rId1, rId2, ... in document order
NumberRels(ts) == [j \in 1..Len(ts) |-> Rel(j, ts[j][1], ts[j][2])]

SeqMap(f, dom) == [j \in 1..Len(dom) |-> f[dom[j]]]

\* The container a source unpacks to (_unzip).  i is the source's position in
\* the call and marks the content of its parts; p describes the deck:
\*   disp   displayed slide order (slide part numbers, as the manifest lists them)
\*   lay    slide -> its layout        mst   layout -> its master
\*   thm    master -> its theme        mid   master -> its sldMasterId id
\*   lid    layout -> its sldLayoutId id in its master
\*   media  file name -> bytes         pic   slide -> media files it shows
\*   bg     layout -> media files it shows
\*   notes, chart   slides that own a notes slide / a chart part
\*   link   slide -> slides it jumps to by a hyperlink (where the deck has any)
\*   sz     <<cx, cy>> of sldSz        exts  Default extensions registered
\* Master and layout ids are written relative to 2147483647 (id 1 is
\* 2147483648): the code only compares them and adds one.
Build(i, p) ==
    LET slides == {p.disp[j] : j \in 1..Len(p.disp)}
        layouts == DOMAIN p.mst
        masters == DOMAIN p.thm
        themes == Range(p.thm)
        mseq == SortNums(masters)
        keys == ({"slide"} \X slides) \cup ({"slideLayout"} \X layouts)
                \cup ({"slideMaster"} \X masters) \cup ({"theme"} \X themes)
        laysOf(m) == SortNums({l \in layouts : p.mst[l] = m})
        slideRels(s) == NumberRels(
            <<(<<"slideLayout", PartT("slideLayout", p.lay[s])>>)>>
            \o [j \in 1..Len(p.pic[s]) |-> <<"image", MediaT(p.pic[s][j])>>]
            \o (IF s \in p.notes THEN <<(<<"notesSlide", OtherT("notesSlide", s)>>)>> ELSE <<>>)
            \o (IF s \in p.chart THEN <<(<<"chart", OtherT("chart", s)>>)>> ELSE <<>>)
            \o (IF "link" \in DOMAIN p
                THEN [j \in 1..Len(p.link[s]) |-> <<"slide", PartT("slide", p.link[s][j])>>]
                ELSE <<>>))
        layoutRels(l) == NumberRels(
            <<(<<"slideMaster", PartT("slideMaster", p.mst[l])>>)>>
            \o [j \in 1..Len(p.bg[l]) |-> <<"image", MediaT(p.bg[l][j])>>])
        masterRels(m) == NumberRels(
            [j \in 1..Len(laysOf(m)) |-> <<"slideLayout", PartT("slideLayout", laysOf(m)[j])>>]
            \o <<(<<"theme", PartT("theme", p.thm[m])>>)>>)
        nm == Len(mseq)
    IN [ parts |-> [key \in keys |-> [src |-> i, fam |-> key[1], num |-> key[2]]],
         rels |-> [key \in {x \in keys : x[1] # "theme"} |->
                     IF key[1] = "slide" THEN slideRels(key[2])
                     ELSE IF key[1] = "slideLayout" THEN layoutRels(key[2])
                     ELSE masterRels(key[2])],
         layoutIds |-> [m \in masters |-> SeqMap(p.lid, laysOf(m))],
         media |-> p.media,
         others |-> {OtherT("notesSlide", s) : s \in p.notes}
                    \cup {OtherT("chart", s) : s \in p.chart},
         sldMasterIdLst |-> [j \in 1..nm |-> [id |-> p.mid[mseq[j]], rid |-> j]],
         sldIdLst |-> [j \in 1..Len(p.disp) |-> [id |-> 255 + j, rid |-> nm + j]],
         presRels |-> [j \in 1..nm |-> Rel(j, "slideMaster", PartT("slideMaster", mseq[j]))]
                      \o [j \in 1..Len(p.disp) |-> Rel(nm + j, "slide", PartT("slide", p.disp[j]))]
                      \o <<Rel(nm + Len(p.disp) + 1, "theme", PartT("theme", Max(themes, 0)))>>,
         sldSz |-> [present |-> TRUE, cx |-> p.sz[1], cy |-> p.sz[2]],
         defaults |-> p.exts,
         overrides |-> [key \in keys |-> 1],
         app |-> [present |-> TRUE, Slides |-> Cardinality(slides),
                  Themes |-> Cardinality(themes)] ]

\* every id of the shared master/layout id space that c uses: the sldMasterIds
\* of its manifest and the sldLayoutIds of its master parts
IdsInUse(c) ==
    {c.sldMasterIdLst[j].id : j \in 1..Len(c.sldMasterIdLst)}
    \cup UNION {Range(c.layoutIds[m]) : m \in DOMAIN c.layoutIds}

-----------------------------------------------------------------------------
(* merger.py: scan *)

\* _scan counting the parts of a family instead of taking their maximum suffix
ScanCount(c) ==
    [ sld |-> Cardinality(_nums(c, "slide")),
      lay |-> Cardinality(_nums(c, "slideLayout")),
      mst |-> Cardinality(_nums(c, "slideMaster")),
      thm |-> Cardinality(_nums(c, "theme")) ]

\* _scan: a container's maximum suffix per family (0 for an empty family)
_scan(c) ==
    [ sld |-> Max(_nums(c, "slide"), 0),
      lay |-> Max(_nums(c, "slideLayout"), 0),
      mst |-> Max(_nums(c, "slideMaster"), 0),
      thm |-> Max(_nums(c, "theme"), 0) ]

\* the offset maps without the offset: every part keeps its source number
NumMapNoOffset(s, fam, baseMax) == [n \in _nums(s, fam) |-> n]

\* the offset maps of _append: {n: n + base_max for n in source numbers}
NumMap(s, fam, baseMax) == [n \in _nums(s, fam) |-> n + baseMax]

-----------------------------------------------------------------------------
(* merger.py: copy *)

\* _copy_parts: shutil.copy2 of each part file (and its .rels, where asked and
\* present) to its new number; an existing destination file is overwritten.
\* The sldLayoutIdLst of a master is content of the master's part file.
_copy_parts(src, dst, fam, num_map, rels) ==
    LET olds == DOMAIN num_map
        copied == [key \in {<<fam, num_map[o]>> : o \in olds} |->
                     src.parts[<<fam, CHOOSE o \in olds : num_map[o] = key[2]>>]]
        withRels == {o \in olds : rels /\ <<fam, o>> \in DOMAIN src.rels}
        copiedRels == [key \in {<<fam, num_map[o]>> : o \in withRels} |->
                     src.rels[<<fam, CHOOSE o \in withRels : num_map[o] = key[2]>>]]
        lids == IF fam = "slideMaster"
                THEN [m \in {num_map[o] : o \in olds} |->
                        src.layoutIds[CHOOSE o \in olds : num_map[o] = m]]
                ELSE <<>>
    IN [dst EXCEPT !.parts = copied @@ @,
                   !.rels = copiedRels @@ @,
                   !.layoutIds = IF fam = "slideMaster" THEN lids @@ @ ELSE @]

RECURSIVE IntStr(_)
\* str(n) for n >= 0
IntStr(n) == IF n < 10 THEN <<48 + n>> ELSE IntStr(n \div 10) \o <<48 + (n % 10)>>

RECURSIVE FreeName(_, _, _, _)
\* the while loop of _copy_media: stem_m{c}ext for the first c whose name is free
FreeName(stem, ext, c, existing) ==
    LET name == stem \o <<95, 109>> \o IntStr(c) \o ext
    IN IF name \in existing THEN FreeName(stem, ext, c + 1, existing) ELSE name

RECURSIVE CopyMediaLoop(_, _, _, _)
\* the for loop of _copy_media over sorted(src_media.iterdir())
CopyMediaLoop(files, srcMedia, dst, rename) ==
    IF files = <<>> THEN [media |-> dst, rename |-> rename]
    ELSE LET f == Head(files)
             existing == DOMAIN dst
             name == IF f \in existing
                     THEN FreeName(PathStem(f), PathSuffix(f), 1, existing)
                     ELSE f
             rn == IF f \in existing THEN Append(rename, <<f, name>>) ELSE rename
         IN CopyMediaLoop(Tail(files), srcMedia, (name :> srcMedia[f]) @@ dst, rn)

\* _copy_media: the base's media after the copy, and the rename map as the
\* list of its (old, new) items in insertion order
_copy_media(b, s) == CopyMediaLoop(SortStrs(DOMAIN s.media), s.media, b.media, <<>>)

-----------------------------------------------------------------------------
(* merger.py: rewrite rels *)

\* _strip_notes_refs leaving every relationship in place
KeepNotesRefs(rs) == rs

\* _strip_notes_refs: drop every relationship whose Type names notesSlide
_strip_notes_refs(rs) == SelectSeq(rs, LAMBDA r : r.Type # "notesSlide")

\* The body of _rewrite_rels for one relationship.  A target naming a part
\* prefix{n}.xml of a family in part_maps is renumbered.  Then every item of
\* media_map whose old name occurs in the ORIGINAL target text sets the target
\* to that text with the old name replaced: the last such item wins.
RewriteTarget(t, part_maps, media_map) ==
    LET t1 == IF t.k \in DOMAIN part_maps /\ t.n \in DOMAIN part_maps[t.k]
              THEN [t EXCEPT !.n = part_maps[t.k][t.n]]
              ELSE t
        hits == {j \in 1..Len(media_map) : Contains(t.s, media_map[j][1])}
        last == Max(hits, 0)
    IN IF hits = {} THEN t1
       ELSE [t1 EXCEPT !.s = Replace(t.s, media_map[last][1], media_map[last][2])]

_rewrite_rels(rs, part_maps, media_map) ==
    [j \in 1..Len(rs) |->
        [rs[j] EXCEPT !.Target = RewriteTarget(rs[j].Target, part_maps, media_map)]]

\* _collect_all_ids leaving out the sldLayoutIds of the master parts
CollectMasterIdsOnly(b, exclude) ==
    {b.sldMasterIdLst[j].id : j \in 1..Len(b.sldMasterIdLst)}

\* _collect_all_ids: every sldMasterId of the manifest and every sldLayoutId of
\* every master part but the excluded one (0: none excluded)
_collect_all_ids(b, exclude) ==
    {b.sldMasterIdLst[j].id : j \in 1..Len(b.sldMasterIdLst)}
    \cup UNION {Range(b.layoutIds[m]) : m \in DOMAIN b.layoutIds \ {exclude}}

\* _fix_master_layout_ids: renumber the master's sldLayoutIds from max(used) + 1
_fix_master_layout_ids(b, m) ==
    IF m \notin DOMAIN b.layoutIds THEN b
    ELSE LET used == _collect_all_ids(b, m)
             next_id == Max(used, 0) + 1
         IN [b EXCEPT !.layoutIds[m] = [j \in 1..Len(@) |-> next_id + j - 1]]

-----------------------------------------------------------------------------
(* merger.py: register in presentation.xml, content types, slide size *)

\* _register_slides numbering the new sldIds from the default 255 whatever ids
\* the manifest holds
RegisterSlidesIdsFromDefault(b, sld_map, mst_map) ==
    LET max_rid == Max({b.presRels[j].Id : j \in 1..Len(b.presRels)}, 0)
        so == SortNums(DOMAIN sld_map)
        ns == Len(so)
        max_mid == Max(_collect_all_ids(b, 0), 0)
        mo == SortNums(DOMAIN mst_map)
    IN [b EXCEPT
          !.sldIdLst = @ \o [j \in 1..ns |-> [id |-> 255 + j, rid |-> max_rid + j]],
          !.sldMasterIdLst = @ \o [j \in 1..Len(mo) |->
                                     [id |-> max_mid + j, rid |-> max_rid + ns + j]],
          !.presRels = @ \o [j \in 1..ns |->
                               Rel(max_rid + j, "slide", PartT("slide", sld_map[so[j]]))]
                         \o [j \in 1..Len(mo) |->
                               Rel(max_rid + ns + j, "slideMaster",
                                   PartT("slideMaster", mst_map[mo[j]]))]]

\* _register_slides: one sldId + relationship per copied slide, then one
\* sldMasterId + relationship per copied master, each in sorted(old number)
\* order, with ids continuing from the maxima in use
_register_slides(b, sld_map, mst_map) ==
    LET max_rid == Max({b.presRels[j].Id : j \in 1..Len(b.presRels)}, 0)
        max_sid == Max({b.sldIdLst[j].id : j \in 1..Len(b.sldIdLst)}, 255)
        so == SortNums(DOMAIN sld_map)
        ns == Len(so)
        max_mid == Max(_collect_all_ids(b, 0), 0)
        mo == SortNums(DOMAIN mst_map)
    IN [b EXCEPT
          !.sldIdLst = @ \o [j \in 1..ns |-> [id |-> max_sid + j, rid |-> max_rid + j]],
          !.sldMasterIdLst = @ \o [j \in 1..Len(mo) |->
                                     [id |-> max_mid + j, rid |-> max_rid + ns + j]],
          !.presRels = @ \o [j \in 1..ns |->
                               Rel(max_rid + j, "slide", PartT("slide", sld_map[so[j]]))]
                         \o [j \in 1..Len(mo) |->
                               Rel(max_rid + ns + j, "slideMaster",
                                   PartT("slideMaster", mst_map[mo[j]]))]]

\* _register_content_types: one more Override per copied part
_register_content_types(b, sld, lay, mst, thm) ==
    LET new == {<<"slide", n>> : n \in Range(sld)}
               \cup {<<"slideLayout", n>> : n \in Range(lay)}
               \cup {<<"slideMaster", n>> : n \in Range(mst)}
               \cup {<<"theme", n>> : n \in Range(thm)}
    IN [b EXCEPT !.overrides =
          [key \in DOMAIN @ \cup new |->
              (IF key \in DOMAIN @ THEN @[key] ELSE 0) + (IF key \in new THEN 1 ELSE 0)]]

\* _copy_default_types: the source's Default extensions the base lacks
_copy_default_types(b, s) == [b EXCEPT !.defaults = @ \cup s.defaults]

\* _get_size: (cx, cy) of sldSz, (0, 0) without one
_get_size(c) == IF c.sldSz.present THEN <<c.sldSz.cx, c.sldSz.cy>> ELSE <<0, 0>>

\* _set_size: rewrite sldSz where there is one
_set_size(c, cx, cy) ==
    IF c.sldSz.present THEN [c EXCEPT !.sldSz.cx = cx, !.sldSz.cy = cy] ELSE c

\* _harmonize_size resizing only for a source larger in both dimensions
HarmonizeSizeBothLarger(b, s) ==
    LET bw == _get_size(b)[1]
        bh == _get_size(b)[2]
        sw == _get_size(s)[1]
        sh == _get_size(s)[2]
    IN IF sw > bw /\ sh > bh THEN _set_size(b, sw, sh) ELSE b

\* _harmonize_size: adopt the larger of each dimension when the source is
\* larger in either
_harmonize_size(b, s) ==
    LET bw == _get_size(b)[1]
        bh == _get_size(b)[2]
        sw == _get_size(s)[1]
        sh == _get_size(s)[2]
    IN IF sw > bw \/ sh > bh
       THEN _set_size(b, IF bw > sw THEN bw ELSE sw, IF bh > sh THEN bh ELSE sh)
       ELSE b

-----------------------------------------------------------------------------
(* merger.py: append *)

\* the loops of _append over the copied parts' rels files: _rewrite_rels on
\* each file that exists and, for slides, _strip_notes_refs after it
RewriteCopied(b, fam, nums, part_maps, med) ==
    [b EXCEPT !.rels = [key \in DOMAIN @ |->
        IF key[1] = fam /\ key[2] \in nums
        THEN IF fam = "slide"
             THEN _strip_notes_refs(_rewrite_rels(@[key], part_maps, med))
             ELSE _rewrite_rels(@[key], part_maps, med)
        ELSE @[key]]]

RECURSIVE FixMasters(_, _)
\* the tail of the loop over mst.values(): _fix_master_layout_ids per master
FixMasters(b, ms) ==
    IF ms = <<>> THEN b
    ELSE FixMasters(_fix_master_layout_ids(b, Head(ms)), Tail(ms))

\* _append: fold the unpacked source s into the base b
_append(b, s) ==
    LET bm == _scan(b)
        sld == NumMap(s, "slide", bm.sld)
        lay == NumMap(s, "slideLayout", bm.lay)
        mst == NumMap(s, "slideMaster", bm.mst)
        thm == NumMap(s, "theme", bm.thm)
        cm == _copy_media(b, s)
        med == cm.rename
        b1 == [b EXCEPT !.media = cm.media]
        b2 == _copy_parts(s, b1, "slide", sld, TRUE)
        b3 == _copy_parts(s, b2, "slideLayout", lay, TRUE)
        b4 == _copy_parts(s, b3, "slideMaster", mst, TRUE)
        b5 == _copy_parts(s, b4, "theme", thm, FALSE)
        b6 == RewriteCopied(b5, "slide", Range(sld), [slideLayout |-> lay], med)
        b7 == RewriteCopied(b6, "slideLayout", Range(lay), [slideMaster |-> mst], med)
        b8 == RewriteCopied(b7, "slideMaster", Range(mst),
                            [slideLayout |-> lay, theme |-> thm], med)
        b9 == FixMasters(b8, SortNums(Range(mst)))
        b10 == _register_slides(b9, sld, mst)
        b11 == _register_content_types(b10, sld, lay, mst, thm)
        b12 == _copy_default_types(b11, s)
    IN _harmonize_size(b12, s)

\* _fix_app_xml: docProps/app.xml, where present, gets the part counts
_fix_app_xml(b) ==
    IF ~b.app.present THEN b
    ELSE [b EXCEPT !.app.Slides = Cardinality(_nums(b, "slide")),
                   !.app.Themes = Cardinality(_nums(b, "theme"))]

-----------------------------------------------------------------------------
(* The sources a merge is called with *)

SourceNames == {"A", "B", "C", "D", "E", "F", "G"}

\* A: one slide showing p.png; 4:3 canvas
\* B: two slides displayed in the order slide2, slide1; slide2 shows p.png
\* C: parts numbered with gaps (slides 1 and 3, layout 2, master 2, theme 3);
\*    slide1 shows mp.png, slide3 shows p.png
\* D: one slide with a notes slide and a chart, on a layout showing p.png;
\*    its master and its layout carry the same id
\* E: one slide showing p.png and p_m1.png; portrait canvas
\* F: two masters (ids 1 and 4) with layouts 1, 2 | 3 and themes 1, 2; 16:9
\* G: two slides, slide1 with notes and a hyperlink that jumps to slide2
Deck(name) ==
    CASE name = "A" ->
        [ disp |-> <<1>>, lay |-> (1 :> 1), mst |-> (1 :> 1), thm |-> (1 :> 1),
          mid |-> (1 :> 1), lid |-> (1 :> 2),
          media |-> (pPng :> "bytesA"), pic |-> (1 :> <<pPng>>), bg |-> (1 :> <<>>),
          notes |-> {}, chart |-> {}, sz |-> <<9144000, 6858000>>,
          exts |-> {"xml", "rels", "png"} ]
      [] name = "B" ->
        [ disp |-> <<2, 1>>, lay |-> (1 :> 1 @@ 2 :> 2), mst |-> (1 :> 1 @@ 2 :> 1),
          thm |-> (1 :> 1), mid |-> (1 :> 1), lid |-> (1 :> 2 @@ 2 :> 3),
          media |-> (pPng :> "bytesB"), pic |-> (1 :> <<>> @@ 2 :> <<pPng>>),
          bg |-> (1 :> <<>> @@ 2 :> <<>>),
          notes |-> {}, chart |-> {}, sz |-> <<9144000, 6858000>>,
          exts |-> {"xml", "rels", "png"} ]
      [] name = "C" ->
        [ disp |-> <<1, 3>>, lay |-> (1 :> 2 @@ 3 :> 2), mst |-> (2 :> 2),
          thm |-> (2 :> 3), mid |-> (2 :> 1), lid |-> (2 :> 2),
          media |-> (mpPng :> "bytesCm" @@ pPng :> "bytesC"),
          pic |-> (1 :> <<mpPng>> @@ 3 :> <<pPng>>), bg |-> (2 :> <<>>),
          notes |-> {}, chart |-> {}, sz |-> <<9144000, 6858000>>,
          exts |-> {"xml", "rels", "png"} ]
      [] name = "D" ->
        [ disp |-> <<1>>, lay |-> (1 :> 1), mst |-> (1 :> 1), thm |-> (1 :> 1),
          mid |-> (1 :> 3), lid |-> (1 :> 3),
          media |-> (pPng :> "bytesD"), pic |-> (1 :> <<>>), bg |-> (1 :> <<pPng>>),
          notes |-> {1}, chart |-> {1}, sz |-> <<9144000, 6858000>>,
          exts |-> {"xml", "rels", "png", "jpeg"} ]
      [] name = "E" ->
        [ disp |-> <<1>>, lay |-> (1 :> 1), mst |-> (1 :> 1), thm |-> (1 :> 1),
          mid |-> (1 :> 1), lid |-> (1 :> 2),
          media |-> (pPng :> "bytesE" @@ pm1Png :> "bytesEm"),
          pic |-> (1 :> <<pPng, pm1Png>>), bg |-> (1 :> <<>>),
          notes |-> {}, chart |-> {}, sz |-> <<6858000, 9144000>>,
          exts |-> {"xml", "rels", "png"} ]
      [] name = "F" ->
        [ disp |-> <<1, 2>>, lay |-> (1 :> 1 @@ 2 :> 3),
          mst |-> (1 :> 1 @@ 2 :> 1 @@ 3 :> 2), thm |-> (1 :> 1 @@ 2 :> 2),
          mid |-> (1 :> 1 @@ 2 :> 4), lid |-> (1 :> 2 @@ 2 :> 3 @@ 3 :> 5),
          media |-> <<>>, pic |-> (1 :> <<>> @@ 2 :> <<>>),
          bg |-> (1 :> <<>> @@ 2 :> <<>> @@ 3 :> <<>>),
          notes |-> {}, chart |-> {}, sz |-> <<12192000, 6858000>>,
          exts |-> {"xml", "rels"} ]
      [] name = "G" ->
        [ disp |-> <<1, 2>>, lay |-> (1 :> 1 @@ 2 :> 1), mst |-> (1 :> 1),
          thm |-> (1 :> 1), mid |-> (1 :> 1), lid |-> (1 :> 2),
          media |-> <<>>, pic |-> (1 :> <<>> @@ 2 :> <<>>), bg |-> (1 :> <<>>),
          notes |-> {1}, chart |-> {}, link |-> (1 :> <<2>> @@ 2 :> <<>>),
          sz |-> <<9144000, 6858000>>, exts |-> {"xml", "rels"} ]

\* _unzip of the i-th source of the call
Source(name, i) == Build(i, Deck(name))

-----------------------------------------------------------------------------
(* The merge of merge_and_save: base = sources[0], then _append per source,
   then _fix_app_xml *)

\* the variables of the other operations while a merge runs
ReplaceIdle == doc = <<>> /\ doc0 = <<>> /\ mapping = <<>> /\ rphase = "idle"

TableIdle ==
    tdoc = <<>> /\ tdoc0 = <<>> /\ tfit = <<>> /\ recs = <<>> /\ tphase = "idle"

CallIdle ==
    /\ sources = <<>> /\ pc = "idle" /\ idx = 0 /\ paths = <<>> /\ tmps = <<>>
    /\ fs = <<>> /\ raising = FALSE /\ created = {}

ImageIdle == img = <<>> /\ img0 = <<>> /\ iphase = "idle"

RunIdle ==
    /\ config = <<>> /\ ordered_pages = <<>> /\ rpc = "idle" /\ page_i = 0 /\ pptx_paths = <<>> /\ errors = <<>>
    /\ status = "none" /\ polls = 0 /\ work = <<>>
    /\ processed = <<>> /\ merges = <<>> /\ waited = <<>> /\ result = <<>>

WaitIdle ==
    /\ poll_interval = 0 /\ timeout = 0 /\ clock = 0 /\ elapsed = 0 /\ queries = 0
    /\ wstatus = "none" /\ wpc = "idle"

FamilyMax(c) == [f \in Families |-> Max(_nums(c, f), 0)]

Init ==
    /\ \E n \in SourceNames :
         /\ base = Source(n, 1)
         /\ srcs = <<n>>
    /\ phase = "merging"
    /\ offs = <<[f \in Families |-> 0]>>
    /\ prevIds = {}
    /\ ReplaceIdle
    /\ TableIdle
    /\ CallIdle
    /\ ImageIdle
    /\ RunIdle
    /\ WaitIdle

AppendSource ==
    /\ phase = "merging"
    /\ Len(srcs) < MaxSources
    /\ \E n \in SourceNames :
         /\ base' = _append(base, Source(n, Len(srcs) + 1))
         /\ srcs' = Append(srcs, n)
    /\ offs' = Append(offs, FamilyMax(base))
    /\ prevIds' = IdsInUse(base)
    /\ UNCHANGED phase
    /\ UNCHANGED <<replaceVars, tableVars, callVars, imageVars, runVars, waitVars>>

FixAppXml ==
    /\ phase = "merging"
    /\ base' = _fix_app_xml(base)
    /\ phase' = "done"
    /\ UNCHANGED <<srcs, offs, prevIds>>
    /\ UNCHANGED <<replaceVars, tableVars, callVars, imageVars, runVars, waitVars>>

Next == AppendSource \/ FixAppXml

Spec == Init /\ [][Next]_vars

-----------------------------------------------------------------------------
(* Reading a container as a presentation reader does *)

\* the part a presentation-level relationship id leads to
PresTarget(c, rid) ==
    (CHOOSE j \in 1..Len(c.presRels) : c.presRels[j].Id = rid) 

\* the displayed slides, in manifest (sldIdLst) order, each by the content of
\* the slide part its entry leads to
Displayed(c) ==
    [j \in 1..Len(c.sldIdLst) |->
        c.parts[<<"slide", c.presRels[PresTarget(c, c.sldIdLst[j].rid)].Target.n>>]]

\* the file name of a media target
MediaName(t) == SubSeq(t.s, Len(MediaDir) + 1, Len(t.s))

\* whether a relationship target leads to a part or media file of c
Resolves(c, t) ==
    IF t.k \in Families THEN <<t.k, t.n>> \in DOMAIN c.parts
    ELSE IF t.k = "media"
         THEN /\ Len(t.s) > Len(MediaDir)
              /\ SubSeq(t.s, 1, Len(MediaDir)) = MediaDir
              /\ MediaName(t) \in DOMAIN c.media
         ELSE t \in c.others

\* every relationship of every relationship file of c resolves
NoDangling(c) ==
    /\ \A key \in DOMAIN c.rels :
         \A j \in 1..Len(c.rels[key]) : Resolves(c, c.rels[key][j].Target)
    /\ \A j \in 1..Len(c.presRels) : Resolves(c, c.presRels[j].Target)

\* the i-th source of the call, as unpacked
Src(i) == Source(srcs[i], i)

RECURSIVE ConcatDisplayed(_)
\* the sources' own displayed slides, concatenated in call order up to source i
ConcatDisplayed(i) ==
    IF i = 0 THEN <<>> ELSE ConcatDisplayed(i - 1) \o Displayed(Src(i))

RECURSIVE SlideTotal(_)
SlideTotal(i) ==
    IF i = 0 THEN 0 ELSE SlideTotal(i - 1) + Cardinality(_nums(Src(i), "slide"))

-----------------------------------------------------------------------------
(* Properties of the merge *)

\* C1: the merged manifest displays the slides of the sources in call order,
\* each source's slides in the order its own manifest displays them.
C1_ManifestOrderIsConcatenation == Displayed(base) = ConcatDisplayed(Len(srcs))

\* a source displayed in another order than its part numbers was appended
C1_ReorderedSourceAppended ==
    \E i \in 2..Len(srcs) : srcs[i] = "B"

\* C2: with every source's manifest listing each of its slide parts once, the
\* result has as many slide parts and as many manifest entries as the sources
\* have slides together, and displays every slide of every source exactly once.
C2_SlideCountIsSum ==
    LET total == SlideTotal(Len(srcs))
        shown == Displayed(base)
    IN /\ Cardinality(_nums(base, "slide")) = total
       /\ Len(base.sldIdLst) = total
       /\ \A i \in 1..Len(srcs) : \A n \in _nums(Src(i), "slide") :
             Cardinality({j \in 1..Len(shown) :
                            shown[j] = [src |-> i, fam |-> "slide", num |-> n]}) = 1

\* three sources merged, one numbered with gaps, one with two slides
C2_ThreeSourcesMerged ==
    /\ Len(srcs) = 3
    /\ srcs[1] = "C"
    /\ srcs[2] = "B"
    /\ Cardinality(_nums(base, "slide")) = SlideTotal(3)
    /\ SlideTotal(3) >= 5

\* C3: every part of every source is in the result under its own number plus
\* the maximum suffix its family had in the base when the source was appended
\* (offs), holding its own content; the result holds nothing else, so no two
\* parts share a suffix and no copy was written over a part of the base.
C3_SuffixesUniqueByOffset ==
    /\ \A i \in 1..Len(srcs) : \A key \in DOMAIN Src(i).parts :
          LET new == <<key[1], key[2] + offs[i][key[1]]>>
          IN /\ new \in DOMAIN base.parts
             /\ base.parts[new] = [src |-> i, fam |-> key[1], num |-> key[2]]
    /\ \A f \in Families :
          Cardinality(_nums(base, f)) =
             Cardinality({o \in Range(base.parts) : o.fam = f})
    /\ \A key \in DOMAIN base.parts :
          LET o == base.parts[key]
          IN /\ o.src \in 1..Len(srcs)
             /\ <<o.fam, o.num>> \in DOMAIN Src(o.src).parts
             /\ key = <<o.fam, o.num + offs[o.src][o.fam]>>

\* a source was appended to a base whose slide, master and theme numbers have
\* gaps, so that the family maxima exceed the part counts
C3_AppendedAfterGaps ==
    /\ Len(srcs) = 3
    /\ srcs[1] = "C"
    /\ srcs[2] = "F"
    /\ offs[2]["slide"] = 3
    /\ offs[3]["theme"] = 5

\* every relationship of every source leads to a part or media file of it
SourcesResolve == \A i \in 1..Len(srcs) : NoDangling(Src(i))

\* C4: when every relationship of every source resolves in its source, every
\* relationship of the result resolves in the result.
C4_NoDanglingRelationship == SourcesResolve => NoDangling(base)

\* C5: every media file of every source is in the result with its bytes, and
\* every media relationship of a copied slide, layout or master leads, in the
\* result, to a file holding the bytes it led to in its own source.
C5_MediaKeptAndResolved ==
    /\ \A i \in 1..Len(srcs) : \A name \in DOMAIN Src(i).media :
          \E m \in DOMAIN base.media : base.media[m] = Src(i).media[name]
    /\ \A key \in DOMAIN base.rels :
          LET o == base.parts[key]
              own == Src(o.src)
              before == own.rels[<<o.fam, o.num>>]
              after == base.rels[key]
          IN \A j \in 1..Len(before) :
                before[j].Target.k = "media" =>
                   \E k \in 1..Len(after) :
                      /\ after[k].Id = before[j].Id
                      /\ Resolves(base, after[k].Target)
                      /\ base.media[MediaName(after[k].Target)]
                            = own.media[MediaName(before[j].Target)]

RECURSIVE SumLen(_, _)
\* the number of sldLayoutId entries over the given master parts
SumLen(f, S) ==
    IF S = {} THEN 0
    ELSE LET m == CHOOSE x \in S : TRUE IN Len(f[m]) + SumLen(f, S \ {m})

\* all sldMasterId and sldLayoutId entries of c carry pairwise distinct ids
IdsDistinct(c) ==
    Len(c.sldMasterIdLst) + SumLen(c.layoutIds, DOMAIN c.layoutIds)
        = Cardinality(IdsInUse(c))

\* the master parts copied from the last source, and the ids allocated for them:
\* their sldLayoutIds and the sldMasterIds of their manifest entries
LastMasters ==
    {m \in _nums(base, "slideMaster") : base.parts[<<"slideMaster", m>>].src = Len(srcs)}

AllocatedIds ==
    UNION {Range(base.layoutIds[m]) : m \in LastMasters}
    \cup {base.sldMasterIdLst[j].id : j \in
            {x \in 1..Len(base.sldMasterIdLst) :
               base.presRels[PresTarget(base, base.sldMasterIdLst[x].rid)].Target.n
                  \in LastMasters}}

\* the sldMasterIds of the manifest entries of the last source's masters
LastMasterIds ==
    {base.sldMasterIdLst[j].id : j \in
        {x \in 1..Len(base.sldMasterIdLst) :
           base.presRels[PresTarget(base, base.sldMasterIdLst[x].rid)].Target.n
              \in LastMasters}}

\* the sldLayoutIds a master of the last source had in its own source
OriginalLayoutIds(m) ==
    Range(Src(Len(srcs)).layoutIds[base.parts[<<"slideMaster", m>>].num])

\* C6: when the first source's master and layout ids are pairwise distinct, so
\* are all sldMasterIds and sldLayoutIds of the result, across both families;
\* and every id an append allocates is greater than every master or layout id
\* in use when it is allocated: the ids of the base before the append, the ids
\* allocated earlier in the append, and the ids the masters not yet renumbered
\* still carry from their source.
C6_SharedIdSpaceDistinct ==
    /\ IdsDistinct(Src(1)) => IdsDistinct(base)
    /\ Len(srcs) > 1 =>
          /\ \A id \in AllocatedIds : \A old \in prevIds : id > old
          /\ Cardinality(AllocatedIds) =
                Cardinality(LastMasters) + SumLen(base.layoutIds, LastMasters)
          /\ \A m \in LastMasters :
                /\ \A j \in 1..(Len(base.layoutIds[m]) - 1) :
                      base.layoutIds[m][j] < base.layoutIds[m][j + 1]
                /\ \A m2 \in LastMasters : m < m2 =>
                      \A id \in Range(base.layoutIds[m2]) :
                         /\ \A e \in Range(base.layoutIds[m]) : e < id
                         /\ \A o \in OriginalLayoutIds(m2) :
                               \A e \in Range(base.layoutIds[m]) : o < e
                /\ \A id \in LastMasterIds :
                      \A e \in Range(base.layoutIds[m]) : e < id

\* a source with two masters and three layouts was appended to a base that
\* already holds ids of both families
C6_TwoMastersAppended ==
    /\ Len(srcs) = 3
    /\ srcs[3] = "F"
    /\ srcs[1] = "B"
    /\ IdsDistinct(Src(1))
    /\ Cardinality(AllocatedIds) = 5
    /\ Cardinality(prevIds) >= 5

\* the relationship of local id `id` in a relationship file, <<>> without one
RelById(rs, id) ==
    LET hits == {j \in 1..Len(rs) : rs[j].Id = id}
    IN IF hits = {} THEN <<>> ELSE rs[CHOOSE j \in hits : TRUE]

\* the relationships of the source's part `key` that lead to a part of one of
\* the families in fams are, in the copy of the part, retargeted by the offset
\* the family had when source i was appended
Retargeted(i, key, fams) ==
    LET before == Src(i).rels[key]
        after == base.rels[<<key[1], key[2] + offs[i][key[1]]>>]
    IN \A j \in 1..Len(before) :
          before[j].Target.k \in fams =>
             /\ RelById(after, before[j].Id) # <<>>
             /\ RelById(after, before[j].Id).Target =
                   PartT(before[j].Target.k,
                         before[j].Target.n + offs[i][before[j].Target.k])

\* C21: every relationship of a copied slide, layout or master that led, in
\* its source, to slide, layout, master or theme number n leads in the result
\* to number n plus the maximum suffix the family had in the base before the
\* source was appended, the copy of the same part.
C21_RelationshipsFollowCopies ==
    \A i \in 2..Len(srcs) : \A key \in DOMAIN Src(i).rels :
        Retargeted(i, key, Families)

\* the same for the references the part maps of _append cover: a slide's
\* layout, a layout's master, a master's layouts and theme
C21_LayoutMasterThemeFollow ==
    \A i \in 2..Len(srcs) : \A key \in DOMAIN Src(i).rels :
        Retargeted(i, key, IF key[1] = "slide" THEN {"slideLayout"}
                           ELSE IF key[1] = "slideLayout" THEN {"slideMaster"}
                           ELSE {"slideLayout", "theme"})

\* a manifest: its sldIds are pairwise distinct, the Ids of the
\* presentation-level relationship file are pairwise distinct, and every
\* sldId and sldMasterId entry names exactly one relationship, which leads to
\* a slide part, a master part, of the container
ManifestWellFormed(c) ==
    /\ Cardinality({c.sldIdLst[j].id : j \in 1..Len(c.sldIdLst)}) = Len(c.sldIdLst)
    /\ Cardinality({c.presRels[j].Id : j \in 1..Len(c.presRels)}) = Len(c.presRels)
    /\ \A j \in 1..Len(c.sldIdLst) :
          LET hits == {x \in 1..Len(c.presRels) : c.presRels[x].Id = c.sldIdLst[j].rid}
          IN /\ Cardinality(hits) = 1
             /\ \A x \in hits : /\ c.presRels[x].Target.k = "slide"
                                 /\ <<"slide", c.presRels[x].Target.n>> \in DOMAIN c.parts
    /\ \A j \in 1..Len(c.sldMasterIdLst) :
          LET hits == {x \in 1..Len(c.presRels) : c.presRels[x].Id = c.sldMasterIdLst[j].rid}
          IN /\ Cardinality(hits) = 1
             /\ \A x \in hits : /\ c.presRels[x].Target.k = "slideMaster"
                                 /\ <<"slideMaster", c.presRels[x].Target.n>> \in DOMAIN c.parts

\* how many slides, masters, the last source brought
LastSlideCount == Cardinality(_nums(Src(Len(srcs)), "slide"))

LastMasterCount == Cardinality(_nums(Src(Len(srcs)), "slideMaster"))

\* C22: with a well formed manifest in the first source, the manifest of the
\* result is well formed after every append (distinct sldIds, distinct
\* relationship Ids, every sldId and sldMasterId entry naming exactly one
\* relationship whose target part exists), and every entry and relationship
\* the append registered carries an id one above the maximum in use when it
\* was registered: the sldIds above the earlier sldIds, the relationship Ids
\* above the earlier relationship Ids, the sldMasterIds above every master
\* and layout id in use.
C22_ManifestIdsFresh ==
    ManifestWellFormed(Src(1)) =>
      /\ ManifestWellFormed(base)
      /\ Len(srcs) > 1 =>
          /\ \A k \in (Len(base.sldIdLst) - LastSlideCount + 1)..Len(base.sldIdLst) :
                base.sldIdLst[k].id = 1 + Max({base.sldIdLst[j].id : j \in 1..(k - 1)}, 255)
          /\ \A k \in (Len(base.presRels) - LastSlideCount - LastMasterCount + 1)
                        ..Len(base.presRels) :
                base.presRels[k].Id = 1 + Max({base.presRels[j].Id : j \in 1..(k - 1)}, 0)
          /\ \A k \in (Len(base.sldMasterIdLst) - LastMasterCount + 1)
                        ..Len(base.sldMasterIdLst) :
                base.sldMasterIdLst[k].id =
                   1 + Max(IdsInUse(base)
                             \ {base.sldMasterIdLst[j].id :
                                  j \in k..Len(base.sldMasterIdLst)}, 0)

\* a source of two slides and two masters was registered in a manifest that
\* already held the entries of two sources
C22_TwoSlidesTwoMastersRegistered ==
    /\ Len(srcs) = 3
    /\ srcs[1] = "B" /\ srcs[2] = "C" /\ srcs[3] = "F"
    /\ ManifestWellFormed(Src(1))
    /\ Len(base.sldIdLst) = 6
    /\ Len(base.sldMasterIdLst) = 4
    /\ base.sldIdLst[6].id = 261

\* C26: when every source declares a canvas size, the canvas of the result has
\* the maximum width and the maximum height over all sources appended so far,
\* each dimension on its own; the size therefore does not depend on the order
\* of the sources and is in no dimension smaller than any source's.
C26_CanvasIsMaxPerDimension ==
    (\A i \in 1..Len(srcs) : Src(i).sldSz.present) =>
       /\ base.sldSz.present
       /\ _get_size(base)[1] = Max({_get_size(Src(i))[1] : i \in 1..Len(srcs)}, 0)
       /\ _get_size(base)[2] = Max({_get_size(Src(i))[2] : i \in 1..Len(srcs)}, 0)

\* a portrait source and a wide source were merged: the canvas of the result
\* is as wide as the one and as high as the other, the size of neither
C26_PortraitAndWideMerged ==
    /\ Len(srcs) >= 2
    /\ _get_size(base) = <<12192000, 9144000>>
    /\ \A i \in 1..Len(srcs) : _get_size(Src(i)) # _get_size(base)

\* the (Id, Type) pairs of a relationship file, in document order
IdTypes(rs) == [j \in 1..Len(rs) |-> <<rs[j].Id, rs[j].Type>>]

\* the relationship file of the copy of slide n of source i
CopiedSlideRels(i, n) == base.rels[<<"slide", n + offs[i]["slide"]>>]

\* C27: no slide copied from the second or a later source carries a
\* relationship of type notes slide, the parts of other kinds in the result
\* (notes slides among them) are those of the first source, none of a later
\* source being copied, and every other relationship of a copied slide is
\* kept with its local id and type.
C27_NotesStrippedOthersKept ==
    /\ base.others = Src(1).others
    /\ \A i \in 2..Len(srcs) : \A n \in _nums(Src(i), "slide") :
          /\ \A j \in 1..Len(CopiedSlideRels(i, n)) :
                CopiedSlideRels(i, n)[j].Type # "notesSlide"
          /\ IdTypes(CopiedSlideRels(i, n)) =
                IdTypes(SelectSeq(Src(i).rels[<<"slide", n>>],
                                  LAMBDA r : r.Type # "notesSlide"))

\* a slide with a notes slide and a chart was copied from the second source:
\* its copy keeps the layout and the chart relationship under their ids
C27_NotesSlideOfSecondSourceDropped ==
    /\ Len(srcs) >= 2
    /\ srcs[2] = "D"
    /\ \E j \in 1..Len(Src(2).rels[<<"slide", 1>>]) :
          Src(2).rels[<<"slide", 1>>][j].Type = "notesSlide"
    /\ IdTypes(CopiedSlideRels(2, 1)) = <<(<<1, "slideLayout">>), (<<3, "chart">>)>>

-----------------------------------------------------------------------------
(* replacer.py: text substitution *)

\* the characters of the templates: "{" 123, "}" 125, "a" 97, "b" 98, "v" 118
\* \w of the pattern, on ASCII: digits, letters, underscore
IsWordChar(c) == c \in (48..57) \cup (65..90) \cup {95} \cup (97..122)

\* "{{" + key + "}}"
Token(key) == <<123, 123>> \o key \o <<125, 125>>

\* a match of PLACEHOLDER_PATTERN  \{\{(\w+)\}\}  in s starts at i and ends at j + 1
TokenAt(s, i, j) ==
    /\ i + 2 < j
    /\ j + 1 <= Len(s)
    /\ s[i] = 123 /\ s[i + 1] = 123
    /\ s[j] = 125 /\ s[j + 1] = 125
    /\ \A k \in (i + 2)..(j - 1) : IsWordChar(s[k])

\* PLACEHOLDER_PATTERN.search(s) finds a match
HasToken(s) == \E i \in 1..Len(s) : \E j \in 1..Len(s) : TokenAt(s, i, j)

\* the keys of the tokens of s
TokenKeys(s) ==
    {SubSeq(s, ij[1] + 2, ij[2] - 1) :
        ij \in {x \in (1..Len(s)) \X (1..Len(s)) : TokenAt(s, x[1], x[2])}}

RECURSIVE JoinRuns(_)
\* "".join(run.text for run in paragraph.runs)
JoinRuns(runs) == IF runs = <<>> THEN <<>> ELSE Head(runs) \o JoinRuns(Tail(runs))

RECURSIVE ReplaceAll(_, _)
\* for key, value in variables.items(): new_text = new_text.replace("{{key}}", value)
ReplaceAll(text, items) ==
    IF items = <<>> THEN text
    ELSE ReplaceAll(Replace(text, Token(Head(items)[1]), Head(items)[2]), Tail(items))

\* the body of _replace_text_frame for one paragraph, given as its run texts.
\* The values of the model are printable text, which run.text stores as is.
ReplaceParagraph(runs, items) ==
    LET full_text == JoinRuns(runs)
    IN IF ~HasToken(full_text) THEN runs
       ELSE IF runs = <<>> THEN runs
       ELSE [j \in 1..Len(runs) |-> IF j = 1 THEN ReplaceAll(full_text, items) ELSE <<>>]

\* _replace_text_frame: every paragraph of a text frame
_replace_text_frame(paras, items) ==
    [j \in 1..Len(paras) |-> ReplaceParagraph(paras[j], items)]

\* _replace_table: the text frame of every cell of every row
_replace_table(rows, items) ==
    [r \in 1..Len(rows) |->
        [c \in 1..Len(rows[r]) |-> _replace_text_frame(rows[r][c], items)]]

\* Shapes as python-pptx presents them in slide.shapes, the direct children of
\* the shape tree: an autoshape ("sp") has a text frame, a graphic frame
\* holding a table ("table") has a table, a group shape ("group") has neither
\* and holds its member shapes, a picture ("pic") has neither.
Sp(paras) == [kind |-> "sp", paras |-> paras, rows |-> <<>>, shapes |-> <<>>]
Tbl(rows) == [kind |-> "table", paras |-> <<>>, rows |-> rows, shapes |-> <<>>]
Grp(shapes) == [kind |-> "group", paras |-> <<>>, rows |-> <<>>, shapes |-> shapes]
Pic == [kind |-> "pic", paras |-> <<>>, rows |-> <<>>, shapes |-> <<>>]

has_text_frame(shape) == shape.kind = "sp"
has_table(shape) == shape.kind = "table"

\* _replace_slide: the loop over slide.shapes
_replace_slide(shapes, items) ==
    [j \in 1..Len(shapes) |->
        LET sh == shapes[j]
            s1 == IF has_text_frame(sh)
                  THEN [sh EXCEPT !.paras = _replace_text_frame(@, items)]
                  ELSE sh
        IN IF has_table(s1)
           THEN [s1 EXCEPT !.rows = _replace_table(@, items)]
           ELSE s1]

\* replace: every slide of the presentation
replace(slides, items) == [j \in 1..Len(slides) |-> _replace_slide(slides[j], items)]

-----------------------------------------------------------------------------
(* The presentations and variables replace is called with *)

kA == <<97>>
kB == <<98>>

\* the pieces a paragraph's text is put together from: the tokens {{a}} and
\* {{b}}, an opening "{{", a closing "}}" and the plain letter "v"
Pieces == {Token(kA), Token(kB), <<123, 123>>, <<125, 125>>, <<118>>}

RECURSIVE TextsOf(_)
TextsOf(n) ==
    IF n = 0 THEN {<<>>}
    ELSE TextsOf(n - 1) \cup {t \o q : t \in TextsOf(n - 1), q \in Pieces}

\* a paragraph: no run at all, or a text in one run, or a text cut into two
\* runs at any place (also inside a token)
Paragraphs ==
    {<<>>}
    \cup {<<t>> : t \in TextsOf(MaxPieces)}
    \cup {<<SubSeq(tk[1], 1, tk[2]), SubSeq(tk[1], tk[2] + 1, Len(tk[1]))>> :
            tk \in {x \in TextsOf(MaxPieces) \X (1..(4 * MaxPieces + 1)) : x[2] < Len(x[1])}}

\* the replacement values: plain text, and text that is itself a token
Values == {<<118>>, Token(kB)}

\* the variables dicts: the keys a and b, each at most once, in either order
Mappings ==
    {<<>>}
    \cup {<<(<<k, v>>)>> : k \in {kA, kB}, v \in Values}
    \cup {<<(<<kv[1], kv[2]>>), (<<kv[3], kv[4]>>)>> :
            kv \in {x \in {kA, kB} \X Values \X {kA, kB} \X Values : x[1] # x[3]}}

\* the presentations: paragraph q in an autoshape, in a table cell, in an
\* autoshape inside a group, or in a two-slide deck beside other shapes
Presentations ==
    {<<(<<Sp(<<q>>)>>)>> : q \in Paragraphs}
    \cup {<<(<<Tbl(<<(<<(<<q>>)>>)>>)>>)>> : q \in Paragraphs}
    \cup {<<(<<Grp(<<Sp(<<q>>)>>)>>)>> : q \in Paragraphs}
    \cup {<< <<Pic, Sp(<<q, <<Token(kA)>> >>)>>,
             <<Tbl(<< <<(<< <<(<<123, 123, 98>>), (<<125, 125>>)>> >>), (<<q>>)>> >>)>> >>
           : q \in Paragraphs}

RECURSIVE ShapeParagraphs(_)
\* every paragraph of a shape: of its text frame, of its table's cells, and of
\* the shapes it groups
ShapeParagraphs(sh) ==
    {sh.paras[j] : j \in 1..Len(sh.paras)}
    \cup UNION {UNION {{sh.rows[r][c][j] : j \in 1..Len(sh.rows[r][c])}
                       : c \in 1..Len(sh.rows[r])} : r \in 1..Len(sh.rows)}
    \cup UNION {ShapeParagraphs(sh.shapes[j]) : j \in 1..Len(sh.shapes)}

\* every paragraph of every shape of every slide
AllParagraphs(slides) ==
    UNION {UNION {ShapeParagraphs(slides[i][j]) : j \in 1..Len(slides[i])}
           : i \in 1..Len(slides)}

\* the keys the tokens of the presentation refer to
KeysReferenced(slides) ==
    UNION {TokenKeys(JoinRuns(q)) : q \in AllParagraphs(slides)}

MappingKeys == {mapping[j][1] : j \in 1..Len(mapping)}

\* the variables of the other operations while replace runs
MergeIdle ==
    /\ base = <<>> /\ srcs = <<>> /\ phase = "idle" /\ offs = <<>> /\ prevIds = {}

InitReplace ==
    /\ doc0 \in Presentations
    /\ doc = doc0
    /\ mapping \in Mappings
    /\ rphase = "open"
    /\ MergeIdle
    /\ TableIdle
    /\ CallIdle
    /\ ImageIdle
    /\ RunIdle
    /\ WaitIdle

\* PptxFileReplacer.replace
DoReplace ==
    /\ rphase = "open"
    /\ doc' = replace(doc, mapping)
    /\ rphase' = "replaced"
    /\ UNCHANGED <<doc0, mapping>>
    /\ UNCHANGED <<mergeVars, tableVars, callVars, imageVars, runVars, waitVars>>

\* the substitution applied once more to the presentation replace returned,
\* with the same variables
ReplaceAgain ==
    /\ rphase = "replaced"
    /\ doc' = [i \in 1..Len(doc) |-> _replace_slide(doc[i], mapping)]
    /\ rphase' = "replaced twice"
    /\ UNCHANGED <<doc0, mapping>>
    /\ UNCHANGED <<mergeVars, tableVars, callVars, imageVars, runVars, waitVars>>

NextReplace == DoReplace \/ ReplaceAgain

SpecReplace == InitReplace /\ [][NextReplace]_vars

\* C7: after replace with variables holding every key the presentation's
\* tokens refer to, no {{identifier}} token is left in the joined run text of
\* any paragraph of any shape or table cell of any slide.
C7_NoTokenRemains ==
    (rphase = "replaced" /\ KeysReferenced(doc0) \subseteq MappingKeys)
        => \A q \in AllParagraphs(doc) : ~HasToken(JoinRuns(q))

\* C19: applying the substitution a second time with the same variables
\* leaves the run texts of every paragraph as the first application left them.
C19_ReplaceIdempotent ==
    [][rphase = "replaced" => doc' = doc]_vars

-----------------------------------------------------------------------------
(* replacer.py: table injection *)

\* An a:r element: whether it has an a:rPr, the rPr's sz in hundredths of a
\* point (0 when the attribute is absent), whether it has an a:t, and its text.
Run(rPr, sz, t, text) == [rPr |-> rPr, sz |-> sz, t |-> t, text |-> text]

\* An a:tc element with its a:txBody: the paragraphs, each a sequence of runs.
Cell(paras) == [paras |-> paras]

\* An a:tr element: its h attribute and its cells.
Row(h, cells) == [h |-> h, cells |-> cells]

\* TopicRow
TopicRow(subject, hours, content, exercise) ==
    [subject |-> subject, hours |-> hours, content |-> content, exercise |-> exercise]

bottom_margin == 274320

min_row_height == 457200

default_base_sz == 1100

min_font_sz == 850

_DENSE_COLS == {2, 3}

col_fields == <<"subject", "hours", "content", "exercise">>

_sanitize_text(text) ==
    LET F[i \in 0..Len(text)] ==
            IF i = 0 THEN <<>>
            ELSE IF text[i] \in {11, 12} THEN Append(F[i - 1], 10)
            ELSE IF text[i] \in (0..8) \cup (14..31) THEN F[i - 1]
            ELSE Append(F[i - 1], text[i])
    IN  F[Len(text)]

_set_cell_text(tc, text) ==
    LET clean == _sanitize_text(text)
        p_elements == tc.paras
    IN  IF p_elements = <<>> THEN tc
        ELSE LET runs == p_elements[1]
                 first_p ==
                     IF runs = <<>> THEN <<>>
                     ELSE IF runs[1].t THEN <<[runs[1] EXCEPT !.text = clean]>>
                     ELSE <<runs[1]>>
             IN  [tc EXCEPT !.paras = <<first_p>>]

\* a row copied from the template and left as it is
NewRowTemplateOnly(template_row, topic) == template_row

\* the copy of the template row filled from one record (inject_table's loop body)
NewRow(template_row, topic) ==
    LET cells == template_row.cells
    IN  [template_row EXCEPT !.cells =
            [ci \in 1..Len(cells) |->
                IF ci <= Len(col_fields)
                THEN _set_cell_text(cells[ci], topic[col_fields[ci]])
                ELSE cells[ci]]]

\* Python's a // b for b > 0
FloorDiv(a, b) == IF a >= 0 THEN a \div b ELSE -((-a + b - 1) \div b)

\* _auto_fit_rows dividing the data area among the rows without the minimum
AutoFitRowsNoMinimum(d, num_data_rows) ==
    IF num_data_rows <= 0 \/ ~d.has_table \/ Len(d.rows) < 2
    THEN [d |-> d, h |-> 0]
    ELSE LET data_row_height ==
                 FloorDiv(d.slide_height - d.top - bottom_margin - d.rows[1].h,
                          num_data_rows)
         IN  [d |-> [d EXCEPT !.rows =
                        [i \in 1..Len(d.rows) |->
                            IF i = 1 THEN d.rows[1]
                            ELSE [d.rows[i] EXCEPT !.h = data_row_height]]],
              h |-> data_row_height]

\* returns the presentation and the data row height (0 for None)
_auto_fit_rows(d, num_data_rows) ==
    IF num_data_rows <= 0 \/ ~d.has_table \/ Len(d.rows) < 2
    THEN [d |-> d, h |-> 0]
    ELSE LET available_height == d.slide_height - d.top - bottom_margin
             header_h == d.rows[1].h
             data_area == available_height - header_h
             data_row_height ==
                 Max({FloorDiv(data_area, num_data_rows), min_row_height}, 0)
         IN  [d |-> [d EXCEPT !.rows =
                        [i \in 1..Len(d.rows) |->
                            IF i = 1 THEN d.rows[1]
                            ELSE [d.rows[i] EXCEPT !.h = data_row_height]]],
              h |-> data_row_height]

RECURSIVE Flatten(_)
\* the concatenation of a sequence of sequences
Flatten(ss) == IF ss = <<>> THEN <<>> ELSE Head(ss) \o Flatten(Tail(ss))

_extract_cell_text(tc) ==
    Flatten([pi \in 1..Len(tc.paras) |->
                Flatten([j \in 1..Len(tc.paras[pi]) |->
                            IF tc.paras[pi][j].t THEN tc.paras[pi][j].text ELSE <<>>])])

RECURSIVE SplitLines(_)
\* str.split("\n")
SplitLines(text) ==
    LET nl == {i \in 1..Len(text) : text[i] = 10}
    IN  IF nl = {} THEN <<text>>
        ELSE LET k == -Max({-i : i \in nl}, 0)
             IN  <<SubSeq(text, 1, k - 1)>> \o SplitLines(SubSeq(text, k + 1, Len(text)))

IsSpace(c) == c \in {9, 10, 11, 12, 13, 28, 29, 30, 31, 32}

\* the length of line.strip()
StripLen(line) ==
    LET keep == {i \in 1..Len(line) : ~IsSpace(line[i])}
    IN  IF keep = {} THEN 0 ELSE Max(keep, 0) - (-Max({-i : i \in keep}, 0)) + 1

CeilDiv(a, b) == (a + b - 1) \div b

\* The font size is taken in hundredths of a point (font_pt = base_sz / 100),
\* lengths in EMU (914400 to the inch), so that
\*   usable_inches / char_width_inches
\*     = max(w - 182880, 457200) / (base_sz * 109.728)
\* and the half lines of empty segments are counted in halves.
_estimate_text_lines(text, col_width_emu, base_sz) ==
    LET usable_emu == Max({col_width_emu - 182880, 457200}, 0)
        chars_per_line == Max({1, (usable_emu * 125) \div (13716 * base_sz)}, 0)
        segs == SplitLines(text)
        Halves[i \in 0..Len(segs)] ==
            IF i = 0 THEN 0
            ELSE Halves[i - 1]
                 + (IF StripLen(segs[i]) = 0 THEN 1
                    ELSE 2 * CeilDiv(StripLen(segs[i]), chars_per_line))
    IN  CeilDiv(Halves[Len(segs)], 2)

_set_cell_font_size(tc, size_hundredths) ==
    [tc EXCEPT !.paras =
        [pi \in 1..Len(tc.paras) |->
            [ri \in 1..Len(tc.paras[pi]) |->
                IF tc.paras[pi][ri].rPr
                THEN [tc.paras[pi][ri] EXCEPT !.sz = size_hundredths]
                ELSE tc.paras[pi][ri]]]]

\* the sz of the first run that has one in the first paragraph of the first
\* cell of the first data row, else the default
BaseSz(first_data) ==
    IF first_data.cells = <<>> \/ first_data.cells[1].paras = <<>>
    THEN default_base_sz
    ELSE LET runs == first_data.cells[1].paras[1]
             with == {j \in 1..Len(runs) : runs[j].rPr /\ runs[j].sz # 0}
         IN  IF with = {} THEN default_base_sz
             ELSE runs[-Max({-j : j \in with}, 0)].sz

\* the most lines any filled cell of a designated column is estimated to take
WorstLines(d, base_sz) ==
    Max({_estimate_text_lines(_extract_cell_text(d.rows[ri].cells[ci + 1]),
                              d.grid[ci + 1], base_sz) :
            <<ri, ci>> \in {x \in (2..Len(d.rows)) \X _DENSE_COLS :
                /\ x[2] < Len(d.rows[x[1]].cells)
                /\ x[2] < Len(d.grid)
                /\ _extract_cell_text(d.rows[x[1]].cells[x[2] + 1]) # <<>>}}, 0)

\* needed_pt <= usable_pt, i.e.
\*   worst_lines * (base_sz / 100) * 1.3 <= h * 72 / 914400 - 12
FitsRow(worst_lines, base_sz, data_row_height_emu) ==
    worst_lines * base_sz * 1651 <= (data_row_height_emu - 152400) * 10

\* int(base_sz * scale) with scale = usable_pt / needed_pt
ScaledSz(worst_lines, data_row_height_emu) ==
    ((data_row_height_emu - 152400) * 10) \div (1651 * worst_lines)

\* the scaled size taken without the 8.5 pt minimum
NewSzNoFloor(worst_lines, data_row_height_emu) ==
    ScaledSz(worst_lines, data_row_height_emu)

NewSz(worst_lines, data_row_height_emu) ==
    Max({ScaledSz(worst_lines, data_row_height_emu), min_font_sz}, 0)

_auto_fit_cell_font(d, data_row_height_emu) ==
    IF Len(d.rows) < 2 THEN d
    ELSE LET base_sz == BaseSz(d.rows[2])
             worst_lines == WorstLines(d, base_sz)
         IN  IF worst_lines <= 0 \/ FitsRow(worst_lines, base_sz, data_row_height_emu)
             THEN d
             ELSE LET new_sz == NewSz(worst_lines, data_row_height_emu)
                  IN  [d EXCEPT !.rows =
                        [ri \in 1..Len(d.rows) |->
                            IF ri = 1 THEN d.rows[1]
                            ELSE [d.rows[ri] EXCEPT !.cells =
                                    [c \in 1..Len(d.rows[ri].cells) |->
                                        IF (c - 1) \in _DENSE_COLS
                                        THEN _set_cell_font_size(d.rows[ri].cells[c], new_sz)
                                        ELSE d.rows[ri].cells[c]]]]]

\* a call that reports a missing table whatever the slide holds
InjectTableOneError(d, rows) ==
    [d |-> d, fit |-> d, outcome |-> "ValueError: no table"]

\* returns the presentation after the call, the presentation as it was when
\* font auto-fit started, and the outcome
inject_table(d, rows) ==
    IF ~d.has_table
    THEN [d |-> d, fit |-> d, outcome |-> "ValueError: no table"]
    ELSE IF d.rows = <<>>
    THEN [d |-> d, fit |-> d, outcome |-> "IndexError"]
    ELSE IF Len(d.rows) < 2
    THEN [d |-> d, fit |-> d, outcome |-> "ValueError: no data rows"]
    ELSE LET template_row == d.rows[2]
             filled == [d EXCEPT !.rows =
                          <<d.rows[1]>> \o [i \in 1..Len(rows) |-> NewRow(template_row, rows[i])]]
             fitted == _auto_fit_rows(filled, Len(rows))
         IN  [d |-> IF fitted.h # 0 THEN _auto_fit_cell_font(fitted.d, fitted.h)
                    ELSE fitted.d,
              fit |-> fitted.d,
              outcome |-> "returned"]

-----------------------------------------------------------------------------
(* The tables and records inject_table is called with *)

\* a text of n letters x
Xs(n) == [i \in 1..n |-> 120]

\* the records: short texts; texts that wrap and hold an empty line; texts
\* with a vertical tab and a control character
Records ==
    { TopicRow(<<115, 49>>, <<49>>, Xs(1), <<>>),
      TopicRow(<<115, 50>>, <<50>>, Xs(7), <<120, 10, 10, 120, 120, 120, 120, 32>>),
      TopicRow(<<115, 11, 51>>, <<51, 1>>, Xs(16), Xs(4)) }

RECURSIVE ListsOf(_, _)
\* the lists of at most n elements of S
ListsOf(S, n) ==
    IF n = 0 THEN {<<>>}
    ELSE ListsOf(S, n - 1) \cup {Append(l, x) : l \in ListsOf(S, n - 1), x \in S}

\* template cells: one run with a size (0: an rPr without sz)
TextCell(sz) == Cell(<< <<Run(TRUE, sz, TRUE, <<111>>)>> >>)

\* one run without an rPr
NoRPrCell == Cell(<< <<Run(FALSE, 0, TRUE, <<111>>)>> >>)

\* one paragraph without runs
EmptyCell == Cell(<< <<>> >>)

\* two paragraphs, the first of two runs
MixedCell(sz) ==
    Cell(<< <<Run(FALSE, 0, TRUE, <<111>>), Run(TRUE, sz, TRUE, <<111, 111>>)>>,
            <<Run(TRUE, sz, TRUE, <<111>>)>> >>)

HeaderCell == Cell(<< <<Run(TRUE, 1200, TRUE, <<104>>)>> >>)

\* the Row Templates: three, four or five cells
TemplateRows ==
    {Row(370840, SubSeq(<<c[1], TextCell(1100), c[2], c[3], TextCell(1100)>>, 1, n)) :
        c \in ({TextCell(1100), TextCell(1800), EmptyCell, MixedCell(1800)}
               \X {TextCell(800), TextCell(1100), NoRPrCell, EmptyCell, MixedCell(1100)}
               \X {TextCell(1100), MixedCell(900)}),
        n \in 3..5}

\* where the table sits, how wide its columns are, and whether its grid has
\* two columns only
Geometries ==
    ({1500000, 5000000, 6500000} \X {600000, 3000000} \X {FALSE})
    \cup {<<5000000, 600000, TRUE>>}

\* a slide of height 6858000 with a table at top g[1]: a header row, the
\* template row and perhaps a second data row; columns of width g[2]
TableDocs ==
    {[slide_height |-> 6858000, has_table |-> TRUE, top |-> g[1],
      grid |-> [i \in 1..(IF g[3] THEN 2 ELSE Len(t.cells)) |-> g[2]],
      rows |-> <<Row(400000, [i \in 1..Len(t.cells) |-> HeaderCell]), t>>
               \o (IF two THEN <<Row(370840, [i \in 1..Len(t.cells) |-> TextCell(1400)])>>
                   ELSE <<>>)] :
        t \in TemplateRows, g \in Geometries, two \in BOOLEAN}

\* a slide without a table, a table without rows, a table of a header only
BrokenDocs ==
    {[slide_height |-> 6858000, has_table |-> FALSE, top |-> 0, grid |-> <<>>, rows |-> <<>>],
     [slide_height |-> 6858000, has_table |-> TRUE, top |-> 1500000,
      grid |-> <<600000>>, rows |-> <<>>],
     [slide_height |-> 6858000, has_table |-> TRUE, top |-> 1500000,
      grid |-> <<600000>>, rows |-> <<Row(400000, <<HeaderCell>>)>>]}

InitTable ==
    /\ tdoc0 \in TableDocs \cup BrokenDocs
    /\ tdoc = tdoc0
    /\ tfit = tdoc0
    /\ recs \in ListsOf(Records, MaxRecords)
    /\ tphase = "open"
    /\ MergeIdle
    /\ ReplaceIdle
    /\ CallIdle
    /\ ImageIdle
    /\ RunIdle
    /\ WaitIdle

\* PptxFileReplacer.inject_table
InjectTable ==
    /\ tphase = "open"
    /\ \E r \in {inject_table(tdoc, recs)} :
           /\ tdoc' = r.d
           /\ tfit' = r.fit
           /\ tphase' = r.outcome
    /\ UNCHANGED <<tdoc0, recs>>
    /\ UNCHANGED <<mergeVars, replaceVars, callVars, imageVars, runVars, waitVars>>

\* inject_table called once more on the presentation the first call left,
\* with the same records
InjectTableAgain ==
    /\ tphase = "returned"
    /\ \E r \in {inject_table(tdoc, recs)} :
           /\ tdoc' = r.d
           /\ tfit' = r.fit
           /\ tphase' = IF r.outcome = "returned" THEN "returned twice"
                         ELSE "second call raised"
    /\ UNCHANGED <<tdoc0, recs>>
    /\ UNCHANGED <<mergeVars, replaceVars, callVars, imageVars, runVars, waitVars>>

NextTable == InjectTable \/ InjectTableAgain

SpecTable == InitTable /\ [][NextTable]_vars

\* the template cell has a first run with a text element to write into
CanTakeText(tc) == tc.paras # <<>> /\ tc.paras[1] # <<>> /\ tc.paras[1][1].t

\* C8: on a table with a header row and at least one data row, inject_table
\* with k records leaves exactly 1 + k rows; the header row is the row it was;
\* and the i-th data row carries the i-th record: in each of the first four
\* columns whose template cell can take text, the (sanitized) field of
\* record i.
C8_RowsFollowRecords ==
    tphase = "returned" =>
        /\ Len(tdoc.rows) = 1 + Len(recs)
        /\ tdoc.rows[1] = tdoc0.rows[1]
        /\ \A i \in 1..Len(recs) :
             \A c \in 1..Len(tdoc0.rows[2].cells) :
                (c <= 4 /\ CanTakeText(tdoc0.rows[2].cells[c]))
                    => tdoc.rows[i + 1].cells[c].paras[1][1].text
                       = _sanitize_text(recs[i][col_fields[c]])

\* two different records replaced two existing data rows
C8_TwoRecordsInjected ==
    /\ tphase = "returned"
    /\ Len(recs) = 2 /\ recs[1] # recs[2]
    /\ Len(tdoc0.rows) = 3
    /\ CanTakeText(tdoc0.rows[2].cells[1])
    /\ tdoc.rows[2].cells[1].paras[1][1].text # tdoc.rows[3].cells[1].paras[1][1].text

\* the sz of every run of a cell, paragraph by paragraph
RunSizes(tc) ==
    [pi \in 1..Len(tc.paras) |-> [ri \in 1..Len(tc.paras[pi]) |-> tc.paras[pi][ri].sz]]

\* C9: after inject_table, a run of a cell in column 2 or 3 whose size font
\* auto-fit changed has a size of at least 850 (8.5 pt); the sizes in every
\* other column of the data rows, and the whole header row, are what they
\* were when auto-fit started.
C9_FontFloorAndFrame ==
    tphase = "returned" =>
        /\ Len(tdoc.rows) = Len(tfit.rows)
        /\ tdoc.rows[1] = tfit.rows[1]
        /\ \A ri \in 2..Len(tdoc.rows) :
             \A c \in 1..Len(tdoc.rows[ri].cells) :
                IF (c - 1) \in {2, 3}
                THEN \A pi \in 1..Len(tdoc.rows[ri].cells[c].paras) :
                       \A j \in 1..Len(tdoc.rows[ri].cells[c].paras[pi]) :
                          RunSizes(tdoc.rows[ri].cells[c])[pi][j]
                                # RunSizes(tfit.rows[ri].cells[c])[pi][j]
                            => RunSizes(tdoc.rows[ri].cells[c])[pi][j] >= 850
                ELSE RunSizes(tdoc.rows[ri].cells[c]) = RunSizes(tfit.rows[ri].cells[c])

\* auto-fit shrank a free-text cell to the minimum and another to a size
\* between the minimum and the template's
C9_ShrunkToFloor ==
    /\ tphase = "returned"
    /\ Len(tdoc.rows) >= 2
    /\ Len(tdoc.rows[2].cells) >= 4
    /\ RunSizes(tfit.rows[2].cells[3]) = << <<1100>> >>
    /\ RunSizes(tdoc.rows[2].cells[3]) = << <<850>> >>
    /\ RunSizes(tfit.rows[2].cells[1]) = RunSizes(tdoc.rows[2].cells[1])

-----------------------------------------------------------------------------
(* merger.py: merge_and_save, statement by statement, and the file system *)
(* it works on.  fs.parent: the directory of the output path exists;      *)
(* fs.files: the sources whose temporary file exists; fs.td: the          *)
(* temporary directory exists; fs.sub: the trees extracted into it (1 is  *)
(* "base", i is "s<i>"); fs.out: the file at the output path.             *)

InitCall ==
    /\ sources \in ListsOf({"path", "memory"}, MaxCallSources)
    /\ pc = "mkdir"
    /\ idx = 0
    /\ paths = <<>>
    /\ tmps = <<>>
    /\ \E parent \in BOOLEAN, out \in {"absent", "old"} :
          fs = [parent |-> parent, files |-> {}, td |-> FALSE, sub |-> {}, out |-> out]
    /\ raising = FALSE
    /\ created = {}
    /\ MergeIdle
    /\ ReplaceIdle
    /\ TableIdle
    /\ ImageIdle
    /\ RunIdle
    /\ WaitIdle

\* leaving the with block on an exception: the temporary directory is removed
LeaveOnError ==
    /\ fs' = [fs EXCEPT !.td = FALSE, !.sub = {}]
    /\ raising' = TRUE
    /\ pc' = "finally"

\* output_path.parent.mkdir(parents=True, exist_ok=True)
Mkdir ==
    /\ pc = "mkdir"
    /\ \/ /\ fs' = [fs EXCEPT !.parent = TRUE]
          /\ created' = IF fs.parent THEN created ELSE created \cup {"dir"}
          /\ pc' = "save"
          /\ idx' = 1
       \/ /\ ~fs.parent
          /\ pc' = "raised"
          /\ UNCHANGED <<fs, created, idx>>
    /\ UNCHANGED <<sources, paths, tmps, raising>>
    /\ UNCHANGED <<mergeVars, replaceVars, tableVars, imageVars, runVars, waitVars>>

\* one round of the loop over sources
SaveSource ==
    /\ pc = "save"
    /\ idx <= Len(sources)
    /\ IF sources[idx] = "memory"
       THEN /\ fs' = [fs EXCEPT !.files = @ \cup {idx}]
            /\ created' = created \cup {"tmpfile"}
            /\ \/ /\ paths' = Append(paths, idx)
                  /\ tmps' = Append(tmps, idx)
                  /\ idx' = idx + 1
                  /\ pc' = "save"
               \/ /\ pc' = "raised"
                  /\ UNCHANGED <<paths, tmps, idx>>
       ELSE /\ paths' = Append(paths, idx)
            /\ idx' = idx + 1
            /\ UNCHANGED <<fs, created, tmps, pc>>
    /\ UNCHANGED <<sources, raising>>
    /\ UNCHANGED <<mergeVars, replaceVars, tableVars, imageVars, runVars, waitVars>>

\* if not paths: raise ValueError
CheckPaths ==
    /\ pc = "save"
    /\ idx > Len(sources)
    /\ pc' = IF paths = <<>> THEN "raised" ELSE "tempdir"
    /\ UNCHANGED <<sources, idx, paths, tmps, fs, raising, created>>
    /\ UNCHANGED <<mergeVars, replaceVars, tableVars, imageVars, runVars, waitVars>>

\* with tempfile.TemporaryDirectory() as td
EnterTempDir ==
    /\ pc = "tempdir"
    /\ \/ /\ fs' = [fs EXCEPT !.td = TRUE]
          /\ created' = created \cup {"tmpdir"}
          /\ pc' = "unzip"
          /\ UNCHANGED raising
       \/ /\ raising' = TRUE
          /\ pc' = "finally"
          /\ UNCHANGED <<fs, created>>
    /\ UNCHANGED <<sources, idx, paths, tmps>>
    /\ UNCHANGED <<mergeVars, replaceVars, tableVars, imageVars, runVars, waitVars>>

\* _unzip(paths[0], base)
UnzipBase ==
    /\ pc = "unzip"
    /\ \/ /\ fs' = [fs EXCEPT !.sub = {1}]
          /\ pc' = "append"
          /\ idx' = 2
          /\ UNCHANGED raising
       \/ /\ LeaveOnError
          /\ UNCHANGED idx
    /\ UNCHANGED <<sources, paths, tmps, created>>
    /\ UNCHANGED <<mergeVars, replaceVars, tableVars, imageVars, runVars, waitVars>>

\* one round of the loop over paths[1:]: _unzip, _append, shutil.rmtree
AppendNext ==
    /\ pc = "append"
    /\ idx <= Len(paths)
    /\ \/ /\ idx' = idx + 1
          /\ UNCHANGED <<fs, raising, pc>>
       \/ /\ LeaveOnError
          /\ UNCHANGED idx
    /\ UNCHANGED <<sources, paths, tmps, created>>
    /\ UNCHANGED <<mergeVars, replaceVars, tableVars, imageVars, runVars, waitVars>>

\* _fix_app_xml(base)
FixApp ==
    /\ pc = "append"
    /\ idx > Len(paths)
    /\ \/ /\ pc' = "zip"
          /\ UNCHANGED <<fs, raising>>
       \/ LeaveOnError
    /\ UNCHANGED <<sources, idx, paths, tmps, created>>
    /\ UNCHANGED <<mergeVars, replaceVars, tableVars, imageVars, runVars, waitVars>>

\* _zipdir(base, output_path) and the end of the with block: the archive is
\* opened for writing at the output path itself
Zip ==
    /\ pc = "zip"
    /\ \/ /\ fs' = [fs EXCEPT !.out = "complete", !.td = FALSE, !.sub = {}]
          /\ created' = created \cup {"out"}
          /\ pc' = "finally"
          /\ UNCHANGED raising
       \/ /\ fs' = [fs EXCEPT !.out = "partial", !.td = FALSE, !.sub = {}]
          /\ created' = created \cup {"out"}
          /\ raising' = TRUE
          /\ pc' = "finally"
       \/ /\ LeaveOnError
          /\ UNCHANGED created
    /\ UNCHANGED <<sources, idx, paths, tmps>>
    /\ UNCHANGED <<mergeVars, replaceVars, tableVars, imageVars, runVars, waitVars>>

\* finally: unlink every file of tmps; then return or let the exception out
Finally ==
    /\ pc = "finally"
    /\ fs' = [fs EXCEPT !.files = @ \ Range(tmps)]
    /\ pc' = IF raising THEN "raised" ELSE "returned"
    /\ UNCHANGED <<sources, idx, paths, tmps, raising, created>>
    /\ UNCHANGED <<mergeVars, replaceVars, tableVars, imageVars, runVars, waitVars>>

NextCall ==
    \/ Mkdir
    \/ SaveSource
    \/ CheckPaths
    \/ EnterTempDir
    \/ UnzipBase
    \/ AppendNext
    \/ FixApp
    \/ Zip
    \/ Finally

SpecCall == InitCall /\ [][NextCall]_vars

\* C10: merge_and_save with an empty list of sources never returns normally
\* and creates nothing: no directory, no temporary file, no temporary
\* directory, no output file.
C10_EmptySourcesNoIO ==
    sources = <<>> => (pc # "returned" /\ created = {})

\* C11: when merge_and_save has ended, by return or by exception, no
\* temporary file of an in-memory source and no extraction directory is left.
C11_TemporariesRemoved ==
    pc \in {"returned", "raised"} => (fs.files = {} /\ ~fs.td /\ fs.sub = {})

\* C12: when merge_and_save has ended with an exception, the output path
\* holds no file written by the call; a complete container is there only on
\* the way to a normal return.
C12_NoPartialOutput ==
    /\ pc = "raised" => fs.out \in {"absent", "old"}
    /\ fs.out = "complete" => (pc \in {"finally", "returned"} /\ ~raising)

\* C13: inject_table on a slide without a table ends with one error, on a
\* table of a header row only with another, and in both cases the
\* presentation is what it was before the call.
C13_ErrorsBeforeMutation ==
    tphase # "open" =>
        /\ ~tdoc0.has_table => (tphase = "ValueError: no table" /\ tdoc = tdoc0)
        /\ (tdoc0.has_table /\ Len(tdoc0.rows) = 1)
              => (tphase = "ValueError: no data rows" /\ tdoc = tdoc0)

\* records were handed to a table that has a header row only
C13_HeaderOnlyRejected ==
    /\ tphase = "ValueError: no data rows"
    /\ Len(tdoc0.rows) = 1
    /\ recs # <<>>

\* C23: after inject_table on a table whose Row Template has at least four
\* cells, the whole text of the cell in column 0, 1, 2, 3 of the i-th data row
\* is the sanitized subject, hours, content, exercise of the i-th record,
\* whatever runs and paragraphs the template's cells held; nothing of the
\* template's or the replaced rows' text is left in these cells.
C23_CellsHoldRecordFields ==
    (tphase = "returned" /\ Len(tdoc0.rows[2].cells) >= 4) =>
        \A i \in 1..Len(recs) : \A c \in 1..4 :
            _extract_cell_text(tdoc.rows[i + 1].cells[c])
                = _sanitize_text(recs[i][col_fields[c]])

\* the same for the template cells that hold a first run with a text element
C23_CellsWithRunHoldFields ==
    (tphase = "returned" /\ Len(tdoc0.rows[2].cells) >= 4) =>
        \A i \in 1..Len(recs) : \A c \in 1..4 :
            CanTakeText(tdoc0.rows[2].cells[c]) =>
                _extract_cell_text(tdoc.rows[i + 1].cells[c])
                    = _sanitize_text(recs[i][col_fields[c]])

\* the share of one data row: floor((slide_height - table_top - 274320 -
\* header_row_height) / k) for the k records of the call
RowShare ==
    FloorDiv(tdoc0.slide_height - tdoc0.top - 274320 - tdoc0.rows[1].h, Len(recs))

\* C24: after inject_table with k >= 1 records every data row has the height
\* h = max(RowShare, 457200) and the header row the height it had; so h is at
\* least 457200, and when RowShare is at least 457200 the header and the k data
\* rows end at or above the bottom margin of the slide.
C24_RowHeightUniform ==
    (tphase = "returned" /\ Len(recs) >= 1) =>
        LET h == IF RowShare > 457200 THEN RowShare ELSE 457200
        IN  /\ \A i \in 2..Len(tdoc.rows) : tdoc.rows[i].h = h
            /\ Len(tdoc.rows) = 1 + Len(recs)
            /\ tdoc.rows[1].h = tdoc0.rows[1].h
            /\ \A i \in 2..Len(tdoc.rows) : tdoc.rows[i].h >= 457200
            /\ RowShare >= 457200 =>
                  tdoc.top + tdoc.rows[1].h + Len(recs) * tdoc.rows[2].h
                      <= tdoc.slide_height - 274320

\* two records shared the data area, each row above the minimum
C24_TwoRowsShareArea ==
    /\ tphase = "returned"
    /\ Len(recs) = 2
    /\ RowShare > 457200
    /\ tdoc.rows[2].h = RowShare /\ tdoc.rows[3].h = RowShare
    /\ tdoc0.rows[2].h # RowShare

\* the runs of the designated columns of the data rows: row, cell, paragraph
\* and run index
DenseRuns ==
    {x \in (2..Len(tdoc.rows)) \X {3, 4} \X (1..2) \X (1..2) :
        /\ x[2] <= Len(tdoc.rows[x[1]].cells)
        /\ x[3] <= Len(tdoc.rows[x[1]].cells[x[2]].paras)
        /\ x[4] <= Len(tdoc.rows[x[1]].cells[x[2]].paras[x[3]])}

\* C25: font auto-fit only scales down: a run of a cell in column 2 or 3 that
\* had a size before auto-fit never has a larger one after it, and the size
\* of a run is changed only when the estimated needed height exceeds the
\* usable height of the row.
C25_FontOnlyScaledDown ==
    tphase = "returned" =>
        \A x \in DenseRuns :
            LET before == RunSizes(tfit.rows[x[1]].cells[x[2]])[x[3]][x[4]]
                after == RunSizes(tdoc.rows[x[1]].cells[x[2]])[x[3]][x[4]]
            IN  /\ before # 0 => after <= before
                /\ after # before =>
                      ~FitsRow(WorstLines(tfit, BaseSz(tfit.rows[2])),
                               BaseSz(tfit.rows[2]), tfit.rows[2].h)

\* the same for tables whose data cells all carry the size of the first cell
C25_UniformSizesScaledDown ==
    tphase = "returned" =>
        \A x \in DenseRuns :
            LET before == RunSizes(tfit.rows[x[1]].cells[x[2]])[x[3]][x[4]]
                after == RunSizes(tdoc.rows[x[1]].cells[x[2]])[x[3]][x[4]]
            IN  (before = BaseSz(tfit.rows[2]) /\ before >= 850) => after <= before

\* C20: after inject_table has returned, a second call with the same records
\* returns too and leaves the table (rows, cell texts, row heights, font
\* sizes) as the first call left it.
C20_InjectIdempotent ==
    [][tphase = "returned" => (tphase' = "returned twice" /\ tdoc' = tdoc)]_vars

\* the same for a list of at least one record
C20_WithRecords ==
    [][(tphase = "returned" /\ recs # <<>>) => (tphase' = "returned twice" /\ tdoc' = tdoc)]_vars

-----------------------------------------------------------------------------
(* replacer.py: replace_slide_image *)

\* A shape of the slide: its shape_type (13 is PICTURE, 1 an autoshape), its
\* position, size and rotation, and the r:embed ids of the a:blip elements
\* under it.  The slide part's rels map an id to an image part, the package
\* holds the blob of every image part.  `other` is the image part a picture
\* of another slide of the document leads to through that slide's rels.
Shape(shape_type, width, height, blips) ==
    [shape_type |-> shape_type, left |-> 100, top |-> 200, width |-> width,
     height |-> height, rot |-> 0, blips |-> blips]

RECURSIVE BestShape(_, _, _, _)
\* the loop over slide.shapes from shape i on: the index of best_shape, 0 for None
BestShape(shapes, i, best_shape, best_area) ==
    IF i > Len(shapes) THEN best_shape
    ELSE IF shapes[i].shape_type = 13 /\ shapes[i].width * shapes[i].height > best_area
    THEN BestShape(shapes, i + 1, i, shapes[i].width * shapes[i].height)
    ELSE BestShape(shapes, i + 1, best_shape, best_area)

\* returns the slide and package after the call and the outcome
replace_slide_image(s, image_bytes) ==
    LET best_shape == BestShape(s.shapes, 1, 0, 0)
    IN  IF best_shape = 0
        THEN [s |-> s, outcome |-> "ValueError: no picture"]
        ELSE IF s.shapes[best_shape].blips = <<>>
        THEN [s |-> s, outcome |-> "ValueError: no blip"]
        ELSE LET r_id == s.shapes[best_shape].blips[1]
             IN  [s |-> [s EXCEPT !.blobs[s.rels[r_id]] = image_bytes],
                  outcome |-> "returned"]

\* the shapes of the slides: pictures of several sizes, two of them without
\* area, a picture without an a:blip, and a large autoshape
ImageShapes ==
    { Shape(13, 0, 3, <<1>>), Shape(13, 3, 0, <<2>>), Shape(13, 2, 2, <<1>>),
      Shape(13, 2, 2, <<2>>), Shape(13, 1, 5, <<2>>), Shape(13, 4, 1, <<1>>),
      Shape(13, 3, 3, <<>>), Shape(1, 9, 9, <<>>) }

InitImage ==
    /\ \E shapes \in ListsOf(ImageShapes, MaxShapes), p2 \in {"image1", "image2"},
          o \in {"image1", "image2"} :
          img0 = [shapes |-> shapes,
                  other |-> o,
                  rels |-> [r \in {1, 2} |-> IF r = 1 THEN "image1" ELSE p2],
                  blobs |-> [q \in {"image1", "image2"} |->
                                IF q = "image1" THEN "old1" ELSE "old2"]]
    /\ img = img0
    /\ iphase = "open"
    /\ MergeIdle
    /\ ReplaceIdle
    /\ TableIdle
    /\ CallIdle
    /\ RunIdle
    /\ WaitIdle

\* PptxFileReplacer.replace_slide_image
ReplaceSlideImage ==
    /\ iphase = "open"
    /\ LET r == replace_slide_image(img, "new")
       IN  /\ img' = r.s
           /\ iphase' = r.outcome
    /\ UNCHANGED img0
    /\ UNCHANGED <<mergeVars, replaceVars, tableVars, callVars, runVars, waitVars>>

NextImage == ReplaceSlideImage

SpecImage == InitImage /\ [][NextImage]_vars

\* the pictures of the slide before the call
Pictures == {i \in 1..Len(img0.shapes) : img0.shapes[i].shape_type = 13}

\* C14: on a slide with at least one picture shape the call returns, the
\* image part referenced by a picture of largest width x height holds the new
\* bytes and no shape has changed; on a slide without picture shape it raises
\* and nothing has changed.
C14_LargestPictureReplaced ==
    iphase # "open" =>
        IF Pictures = {}
        THEN iphase = "ValueError: no picture" /\ img = img0
        ELSE /\ iphase = "returned"
             /\ img.shapes = img0.shapes
             /\ \E i \in Pictures :
                  /\ \A j \in Pictures :
                        img0.shapes[j].width * img0.shapes[j].height
                            <= img0.shapes[i].width * img0.shapes[i].height
                  /\ img0.shapes[i].blips # <<>>
                  /\ img.blobs[img0.rels[img0.shapes[i].blips[1]]] = "new"

\* the image bytes picture i of the slide shows
Shown(s, i) == s.blobs[s.rels[s.shapes[i].blips[1]]]

\* the picture the call selected
Selected == BestShape(img0.shapes, 1, 0, 0)

\* C29: after replace_slide_image has returned, every picture of the slide
\* but the selected one shows the image bytes it showed before, and so does
\* the picture of the other slide, also when several pictures lead to the
\* same image part.
C29_OnlySelectedPictureChanged ==
    iphase = "returned" =>
        /\ \A i \in Pictures \ {Selected} :
              img0.shapes[i].blips # <<>> => Shown(img, i) = Shown(img0, i)
        /\ img.blobs[img.other] = img0.blobs[img0.other]

\* the same for the pictures that lead to another image part than the
\* selected picture
C29_OtherImagePartsUnchanged ==
    iphase = "returned" =>
        LET part == img0.rels[img0.shapes[Selected].blips[1]]
        IN  /\ \A i \in Pictures \ {Selected} :
                  (img0.shapes[i].blips # <<>> /\ img0.rels[img0.shapes[i].blips[1]] # part)
                      => Shown(img, i) = Shown(img0, i)
            /\ img0.other # part => img.blobs[img.other] = img0.blobs[img0.other]
            /\ img.shapes = img0.shapes /\ img.rels = img0.rels /\ img.other = img0.other

-----------------------------------------------------------------------------
(* pipeline.py: DefaultProposalPipeline.run, page by page, with the polling *)
(* loop of GammaClient.wait_for_completion (gamma/client.py)                *)

\* a FixedPage or DynamicPage, as far as run looks at it
Page(name, order) == [name |-> name, order |-> order]

\* PipelineConfig.all_pages_ordered before sorting: fixed pages, then dynamic
AllPagesUnsorted(c) ==
    [j \in 1..Len(c.fixed_pages) |->
        [type |-> "fixed", name |-> c.fixed_pages[j].name,
         order |-> c.fixed_pages[j].order, ref |-> j]]
    \o [j \in 1..Len(c.dynamic_pages) |->
        [type |-> "dynamic", name |-> c.dynamic_pages[j].name,
         order |-> c.dynamic_pages[j].order, ref |-> j]]

RECURSIVE SortedByOrder(_)
\* sorted(pages, key=lambda x: x["order"]): stable
SortedByOrder(pages) ==
    IF pages = <<>> THEN <<>>
    ELSE LET least == -Max({-pages[j].order : j \in 1..Len(pages)}, 0)
             k == -Max({-j : j \in {x \in 1..Len(pages) : pages[x].order = least}}, 0)
         IN  <<pages[k]>>
             \o SortedByOrder(SubSeq(pages, 1, k - 1) \o SubSeq(pages, k + 1, Len(pages)))

all_pages_ordered(c) == SortedByOrder(AllPagesUnsorted(c))

\* the file a page is written to in the scratch directory:
\*   fixed    work_dir / f"{page.order:03d}_{safe_name}.pptx"
\*   dynamic  work_dir / f"{page.order:02d}_{page.name}.pptx"
PagePath(page) ==
    IF page.type = "fixed"
    THEN [digits |-> 3, order |-> page.order, name |-> Replace(page.name, <<47>>, <<95>>)]
    ELSE [digits |-> 2, order |-> page.order, name |-> page.name]

\* f"[{page['name']}] ... {e}", the exception text shortened to one letter:
\* E an exception of the page's processing, G a failed generation, T a timeout
PageError(name, e) == <<91>> \o name \o <<93, 32>> \o e

\* the error of a run without any file to merge
NothingToMerge == <<110, 111, 116, 104, 105, 110, 103>>

\* the error of a failed merge
MergeFailed == <<109, 101, 114, 103, 101>>

\* e.split("]")[0].lstrip("[")
ErrorName(e) ==
    LET close == {j \in 1..Len(e) : e[j] = 93}
        head == IF close = {} THEN e ELSE SubSeq(e, 1, -Max({-j : j \in close}, 0) - 1)
        other == {j \in 1..Len(head) : head[j] # 91}
    IN  IF other = {} THEN <<>>
        ELSE SubSeq(head, -Max({-j : j \in other}, 0), Len(head))

\* PipelineResult
PipelineResult(output_path, fixed_count, dynamic_count, total_slides, errs) ==
    [output_path |-> output_path, fixed_count |-> fixed_count,
     dynamic_count |-> dynamic_count, total_slides |-> total_slides, errors |-> errs]

is_success(r) == Len(r.errors) = 0

\* a result for an empty pptx_paths that reports the page errors only
EmptyResultPageErrorsOnly(errs) == PipelineResult("default", 0, 0, 0, errs)

\* the result returned when pptx_paths is empty
EmptyResult(errs) == PipelineResult("default", 0, 0, 0, Append(errs, NothingToMerge))

\* the result returned when merge_and_save raised
MergeFailedResult(errs) == PipelineResult("named", 0, 0, 0, Append(errs, MergeFailed))

\* the pages of one type whose name is in no error entry
CountPages(ordered, type, errs) ==
    Cardinality({j \in 1..Len(ordered) :
        /\ ordered[j].type = type
        /\ ordered[j].name \notin {ErrorName(errs[x]) : x \in 1..Len(errs)}})

\* the result returned after a merge; every page file holds one slide
MergedResult(ordered, paths_, errs) ==
    PipelineResult("named", CountPages(ordered, "fixed", errs),
                   CountPages(ordered, "dynamic", errs), Len(paths_), errs)

\* GenerationStatus.is_done when every status counts as done
IsDoneAlways(st) == TRUE

\* GenerationStatus.is_done
is_done(st) == st \in {"completed", "failed"}

\* the configurations: fixed pages named "a/b" and "a_b" of order 1 or 2,
\* dynamic pages named "d" of order 1, in any arrangement
FixedPages == {Page(n, o) : n \in {<<97, 47, 98>>, <<97, 95, 98>>}, o \in {1, 2}}

DynamicPages == {Page(<<100>>, 1)}

Configs ==
    {[fixed_pages |-> f, dynamic_pages |-> d] :
        f \in ListsOf(FixedPages, MaxFixed), d \in ListsOf(DynamicPages, MaxDynamic)}

InitRun ==
    /\ config \in Configs
    /\ ordered_pages = <<>>
    /\ rpc = "start"
    /\ page_i = 0
    /\ pptx_paths = <<>>
    /\ errors = <<>>
    /\ status = "none"
    /\ polls = 0
    /\ work = [dir |-> FALSE, files |-> {}, output |-> "absent"]
    /\ processed = <<>>
    /\ merges = <<>>
    /\ waited = <<>>
    /\ result = <<>>
    /\ MergeIdle
    /\ ReplaceIdle
    /\ TableIdle
    /\ CallIdle
    /\ ImageIdle
    /\ WaitIdle

\* the page the loop is at
ThisPage == ordered_pages[page_i]

\* the history entry of a page: its index in ordered_pages and how it ended
\* ("started", "file", "nofile", "error", "failed", "timeout")
Entry(outcome) == [page |-> page_i, outcome |-> outcome, path |-> PagePath(ThisPage)]

\* the current page is over: its history entry, and on to the next page
PageOver(outcome) ==
    /\ processed' =
          IF processed # <<>> /\ processed[Len(processed)].page = page_i
          THEN [processed EXCEPT ![Len(processed)] = Entry(outcome)]
          ELSE Append(processed, Entry(outcome))
    /\ page_i' = page_i + 1
    /\ rpc' = "pages"

\* the exception of a page is caught and collected
PageRaises(e, outcome) ==
    /\ errors' = Append(errors, PageError(ThisPage.name, e))
    /\ PageOver(outcome)
    /\ UNCHANGED pptx_paths

\* the page's file is written and its path collected
PageWritten ==
    /\ work' = [work EXCEPT !.files = @ \cup {PagePath(ThisPage)}]
    /\ pptx_paths' = Append(pptx_paths, PagePath(ThisPage))
    /\ PageOver("file")
    /\ UNCHANGED errors

\* run up to the loop: the scratch directory is made
StartRun ==
    /\ rpc = "start"
    /\ work' = [work EXCEPT !.dir = TRUE]
    /\ ordered_pages' = all_pages_ordered(config)
    /\ rpc' = "pages"
    /\ page_i' = 1
    /\ UNCHANGED <<config, pptx_paths, errors, status, polls, processed, merges,
                   waited, result>>
    /\ UNCHANGED <<mergeVars, replaceVars, tableVars, callVars, imageVars, waitVars>>

\* one round of the loop for a fixed page: _process_fixed returns the path of
\* the file it saved, or raises
ProcessFixed ==
    /\ rpc = "pages"
    /\ page_i <= Len(ordered_pages)
    /\ ThisPage.type = "fixed"
    /\ \/ PageWritten
       \/ PageRaises(<<69>>, "error") /\ UNCHANGED work
    /\ UNCHANGED <<config, ordered_pages, status, polls, merges, waited, result>>
    /\ UNCHANGED <<mergeVars, replaceVars, tableVars, callVars, imageVars, waitVars>>

\* a dynamic page up to the generation request: _process_dynamic raises, or
\* the request is accepted and wait_for_completion starts
StartDynamic ==
    /\ rpc = "pages"
    /\ page_i <= Len(ordered_pages)
    /\ ThisPage.type = "dynamic"
    /\ \/ PageRaises(<<69>>, "error") /\ UNCHANGED <<status, polls>>
       \/ /\ rpc' = "poll"
          /\ polls' = 0
          /\ status' = "none"
          /\ processed' = Append(processed, Entry("started"))
          /\ UNCHANGED <<page_i, errors, pptx_paths>>
    /\ UNCHANGED <<config, ordered_pages, work, merges, waited, result>>
    /\ UNCHANGED <<mergeVars, replaceVars, tableVars, callVars, imageVars, waitVars>>

\* one round of wait_for_completion: get_status answers or raises; a done
\* status is returned; otherwise the time bound is reached (TimeoutError) or
\* the call sleeps and polls again
Poll ==
    /\ rpc = "poll"
    /\ \/ \E st \in {"pending", "processing", "completed", "failed"} :
            /\ status' = st
            /\ polls' = polls + 1
            /\ IF is_done(st)
               THEN /\ waited' = Append(waited, st)
                    /\ rpc' = "export"
                    /\ UNCHANGED <<page_i, errors, pptx_paths, processed>>
               ELSE /\ \/ PageRaises(<<84>>, "timeout")
                       \/ /\ polls + 1 < MaxPolls
                          /\ UNCHANGED <<rpc, page_i, errors, pptx_paths, processed>>
                    /\ UNCHANGED waited
       \/ /\ PageRaises(<<69>>, "error")
          /\ UNCHANGED <<status, polls, waited>>
    /\ UNCHANGED <<config, ordered_pages, work, merges, result>>
    /\ UNCHANGED <<mergeVars, replaceVars, tableVars, callVars, imageVars, waitVars>>

\* the rest of _process_dynamic, after wait_for_completion has returned
FinishDynamic ==
    /\ rpc = "export"
    /\ IF status # "completed"
       THEN PageRaises(<<71>>, "failed") /\ UNCHANGED work
       ELSE \/ PageWritten
            \/ PageRaises(<<69>>, "error") /\ UNCHANGED work
            \/ /\ PageRaises(<<69>>, "error")
               /\ work' = [work EXCEPT !.files = @ \cup {PagePath(ThisPage)}]
            \/ /\ PageOver("nofile")
               /\ UNCHANGED <<work, errors, pptx_paths>>
    /\ UNCHANGED <<config, ordered_pages, status, polls, merges, waited, result>>
    /\ UNCHANGED <<mergeVars, replaceVars, tableVars, callVars, imageVars, waitVars>>

\* if not pptx_paths: return
ReturnEmpty ==
    /\ rpc = "pages"
    /\ page_i > Len(ordered_pages)
    /\ pptx_paths = <<>>
    /\ result' = EmptyResult(errors)
    /\ rpc' = "returned"
    /\ UNCHANGED <<config, ordered_pages, page_i, pptx_paths, errors, status, polls, work,
                   processed, merges, waited>>
    /\ UNCHANGED <<mergeVars, replaceVars, tableVars, callVars, imageVars, waitVars>>

\* merge_and_save(pptx_paths, output_path) and the return after it
Merge ==
    /\ rpc = "pages"
    /\ page_i > Len(ordered_pages)
    /\ pptx_paths # <<>>
    /\ \/ /\ merges' = Append(merges, [paths |-> pptx_paths, raised |-> FALSE])
          /\ work' = [work EXCEPT !.output = "complete"]
          /\ result' = MergedResult(ordered_pages, pptx_paths, errors)
          /\ UNCHANGED errors
       \/ /\ merges' = Append(merges, [paths |-> pptx_paths, raised |-> TRUE])
          /\ \E o \in {work.output, "partial"} : work' = [work EXCEPT !.output = o]
          /\ errors' = Append(errors, MergeFailed)
          /\ result' = MergeFailedResult(errors)
    /\ rpc' = "returned"
    /\ UNCHANGED <<config, ordered_pages, page_i, pptx_paths, status, polls, processed, waited>>
    /\ UNCHANGED <<mergeVars, replaceVars, tableVars, callVars, imageVars, waitVars>>

NextRun ==
    \/ StartRun
    \/ ProcessFixed
    \/ StartDynamic
    \/ Poll
    \/ FinishDynamic
    \/ ReturnEmpty
    \/ Merge

SpecRun == InitRun /\ [][NextRun]_vars

\* the history entries of the pages that wrote a file
WroteFile(e) == e.outcome = "file"

FilesWritten ==
    [j \in 1..Len(SelectSeq(processed, WroteFile)) |-> SelectSeq(processed, WroteFile)[j].path]

\* the history entries of the pages that ended with an exception
Raised(e) == e.outcome \in {"error", "failed", "timeout"}

\* C15: ordered_pages holds every configured page once, in ascending order
\* value; the pages are processed one after the other in that order, each
\* once, whichever of them raise; the merger is invoked at most once, after
\* the last page, with the files of the pages that wrote one, in that order.
C15_PagesInOrderMergedOnce ==
    /\ rpc \notin {"idle", "start"} =>
        /\ Len(ordered_pages) = Len(config.fixed_pages) + Len(config.dynamic_pages)
        /\ \A t \in {"fixed", "dynamic"} :
             \A j \in 1..Len(IF t = "fixed" THEN config.fixed_pages ELSE config.dynamic_pages) :
                Cardinality({x \in 1..Len(ordered_pages) :
                    ordered_pages[x].type = t /\ ordered_pages[x].ref = j}) = 1
        /\ \A x \in 1..Len(ordered_pages) : \A y \in x..Len(ordered_pages) :
             ordered_pages[x].order <= ordered_pages[y].order
    /\ \A j \in 1..Len(processed) : processed[j].page = j
    /\ Len(merges) <= 1
    /\ merges # <<>> =>
        /\ Len(processed) = Len(ordered_pages)
        /\ \A j \in 1..Len(processed) : processed[j].outcome # "started"
        /\ merges[1].paths = FilesWritten
    /\ rpc = "returned" => Len(processed) = Len(ordered_pages)

\* of three pages configured out of order the middle one raised and the other
\* two were merged
C15_MiddlePageFailed ==
    /\ rpc = "returned"
    /\ Len(config.fixed_pages) = 2 /\ Len(config.dynamic_pages) = 1
    /\ config.fixed_pages[1].order > config.fixed_pages[2].order
    /\ processed[2].outcome \in {"error", "failed", "timeout"}
    /\ Len(merges) = 1
    /\ Len(merges[1].paths) = 2

\* C16: a run in which no page wrote a file never invokes the merger and
\* returns the page errors plus the nothing-to-merge error, with 0 slides; a
\* run whose merger raised returns the merge error, with 0 slides.
C16_NoFileNoMerge ==
    rpc = "returned" =>
        /\ FilesWritten = <<>> =>
             /\ merges = <<>>
             /\ ~is_success(result)
             /\ Len(errors) = Len(SelectSeq(processed, Raised))
             /\ result.errors = Append(errors, NothingToMerge)
             /\ result.total_slides = 0
        /\ (merges # <<>> /\ merges[1].raised) =>
             /\ ~is_success(result)
             /\ result.errors[Len(result.errors)] = MergeFailed
             /\ result.total_slides = 0

\* a dynamic page completed without export URL and no page raised
C16_NoPathNoError ==
    /\ rpc = "returned"
    /\ processed # <<>>
    /\ \A j \in 1..Len(processed) : processed[j].outcome = "nofile"
    /\ result.errors = <<NothingToMerge>>

\* C17: when run has returned, the scratch directory and every file written
\* into it are gone.
C17_ScratchRemoved ==
    rpc = "returned" => (~work.dir /\ work.files = {})

\* C18: wait_for_completion hands back completed or failed only; a page whose
\* wait timed out or whose generation failed has its error entry, and the run
\* still processes every page and merges the files written.
C18_OnlyTerminalReturned ==
    /\ \A j \in 1..Len(waited) : waited[j] \in {"completed", "failed"}
    /\ rpc = "export" => status \in {"completed", "failed"}
    /\ rpc = "returned" =>
        /\ \A j \in 1..Len(processed) :
             /\ processed[j].outcome = "timeout"
                   => \E x \in 1..Len(errors) :
                        errors[x] = PageError(ordered_pages[j].name, <<84>>)
             /\ processed[j].outcome = "failed"
                   => \E x \in 1..Len(errors) :
                        errors[x] = PageError(ordered_pages[j].name, <<71>>)
        /\ Len(processed) = Len(ordered_pages)
        /\ FilesWritten # <<>> => (Len(merges) = 1 /\ merges[1].paths = FilesWritten)

\* a dynamic page timed out after a sleep; the page after it was written and
\* the merge went through
C18_TimeoutThenMerged ==
    /\ rpc = "returned"
    /\ \E j \in 1..(Len(processed) - 1) :
          /\ processed[j].outcome = "timeout"
          /\ processed[j + 1].outcome = "file"
    /\ polls = 2
    /\ merges # <<>> /\ ~merges[1].raised


\* the file of page j of ordered_pages was in the list handed to the merger
Handed(j) ==
    /\ merges # <<>>
    /\ \E x \in 1..Len(merges[1].paths) : merges[1].paths[x] = PagePath(ordered_pages[j])

\* the error list of the result holds an entry naming page j
Named(j) ==
    \E x \in 1..Len(result.errors) : ErrorName(result.errors[x]) = ordered_pages[j].name

\* C28: when run has returned, the file of every configured page was in the
\* list handed to the merger or the error list of the result names the page,
\* also for a dynamic page that completed without export URL; and after a
\* merge fixed_count + dynamic_count is the number of files handed to the
\* merger.
C28_EveryPageAccounted ==
    rpc = "returned" =>
        /\ \A j \in 1..Len(ordered_pages) : Handed(j) \/ Named(j)
        /\ (merges # <<>> /\ ~merges[1].raised) =>
              result.fixed_count + result.dynamic_count = Len(merges[1].paths)

\* the pages that did not complete without export URL are accounted for
C28_PagesButNoFileAccounted ==
    rpc = "returned" =>
        \A j \in 1..Len(ordered_pages) :
            processed[j].outcome # "nofile" => (Handed(j) \/ Named(j))

\* the counts when every page has its own name and none completed without
\* export URL
C28_CountsOfDistinctNames ==
    (/\ rpc = "returned"
     /\ merges # <<>> /\ ~merges[1].raised
     /\ \A j \in 1..Len(processed) : processed[j].outcome # "nofile"
     /\ \A x, y \in 1..Len(ordered_pages) :
           ordered_pages[x].name = ordered_pages[y].name => x = y)
    => result.fixed_count + result.dynamic_count = Len(merges[1].paths)


-----------------------------------------------------------------------------
(* gamma/client.py: GammaClient.wait_for_completion, statement by statement *)
(* Time is counted in ticks since start = time.time().  It passes while     *)
(* get_status is under way and while the call sleeps; time.sleep returns    *)
(* after poll_interval at the earliest.                                     *)

\* the test of the time bound letting the call sleep until elapsed is past it
TimedOutPastLimit(e, interval, limit) == e > limit

\* elapsed + poll_interval > timeout
TimedOut(e, interval, limit) == e + interval > limit

InitWait ==
    /\ poll_interval \in 1..MaxInterval
    /\ timeout \in 0..MaxTimeout
    /\ clock = 0
    /\ elapsed = 0
    /\ queries = 0
    /\ wstatus = "none"
    /\ wpc = "query"
    /\ MergeIdle
    /\ ReplaceIdle
    /\ TableIdle
    /\ CallIdle
    /\ ImageIdle
    /\ RunIdle

\* status = self.get_status(generation_id); if status.is_done: return status.
\* The call takes some time and answers with a status or raises.
GetStatus ==
    /\ wpc = "query"
    /\ queries' = queries + 1
    /\ \E d \in 0..MaxLatency : clock' = clock + d
    /\ \/ \E st \in {"pending", "processing", "completed", "failed"} :
            /\ wstatus' = st
            /\ wpc' = IF is_done(st) THEN "returned" ELSE "check"
       \/ /\ wpc' = "raised"
          /\ UNCHANGED wstatus
    /\ UNCHANGED <<poll_interval, timeout, elapsed>>
    /\ UNCHANGED <<mergeVars, replaceVars, tableVars, callVars, imageVars, runVars>>

\* elapsed = time.time() - start; if elapsed + poll_interval > timeout: raise
CheckElapsed ==
    /\ wpc = "check"
    /\ elapsed' = clock
    /\ wpc' = IF TimedOut(clock, poll_interval, timeout) THEN "TimeoutError" ELSE "sleep"
    /\ UNCHANGED <<poll_interval, timeout, clock, queries, wstatus>>
    /\ UNCHANGED <<mergeVars, replaceVars, tableVars, callVars, imageVars, runVars>>

\* time.sleep(poll_interval), and round the loop
Sleep ==
    /\ wpc = "sleep"
    /\ \E late \in 0..1 : clock' = clock + poll_interval + late
    /\ wpc' = "query"
    /\ UNCHANGED <<poll_interval, timeout, elapsed, queries, wstatus>>
    /\ UNCHANGED <<mergeVars, replaceVars, tableVars, callVars, imageVars, runVars>>

NextWait == GetStatus \/ CheckElapsed \/ Sleep

SpecWait == InitWait /\ [][NextWait]_vars

\* every statement the call has reached completes: get_status returns or
\* raises (the HTTP client has a time limit of its own), the sleep returns
SpecWaitFair == InitWait /\ [][NextWait]_vars /\ WF_vars(NextWait)

\* how a call of wait_for_completion ends
WaitOver == wpc \in {"returned", "TimeoutError", "raised"}

\* the number of queries is within the bound, the call does not end without
\* a query, and a sleep the call has decided for ends, by its length, at
\* start + timeout at the latest
WaitWithinBound ==
    /\ queries <= timeout \div poll_interval + 1
    /\ wpc # "query" => queries >= 1
    /\ wpc = "sleep" => elapsed + poll_interval <= timeout
    /\ wpc = "returned" => is_done(wstatus)

\* C30: for every poll_interval > 0 and timeout >= 0 and every behaviour of
\* the service, wait_for_completion ends, with a terminal status, a
\* TimeoutError or the exception of a status query; it queries the status at
\* least once and at most floor(timeout / poll_interval) + 1 times, never
\* sleeps when the sleep would end after start + timeout, and makes no
\* request once a query has raised or the call has otherwise ended.
C30_WaitEndsWithinBound ==
    /\ []WaitWithinBound
    /\ [][WaitOver => queries' = queries]_vars
    /\ <>WaitOver

\* a wait that timed out after the most queries its arguments allow, with
\* two sleeps between them
C30_MostQueriesThenTimeout ==
    /\ wpc = "TimeoutError"
    /\ queries = 3
    /\ queries = timeout \div poll_interval + 1

====
